---- MODULE Spec2Model ----
(***************************************************************************)
(* Model of the parallel, checkpointed MongoDB -> GeoSPARQL ETL pipeline   *)
(* of geosparql-etl.                                                       *)
(*                                                                         *)
(*   variant "orig"    : mongo-etl/mongodb_to_rdf.py                       *)
(*   variant "updated" : mongo-etl/mongodb_to_rdf_updated.py               *)
(*   variant "fixed"   : mongo-etl/mongodb_to_rdf_fixed.py                 *)
(*                                                                         *)
(* Checkpoint files are sequences of characters, so that appending a       *)
(* record and loading a set of keys are modelled by what they do to the    *)
(* bytes of the file.                                                      *)
(***************************************************************************)
EXTENDS Integers, Sequences, FiniteSets, TLC

(***************************************************************************)
(* Bounds of the model.                                                    *)
(***************************************************************************)
\* number of analysis documents in the catalogue (db.analysis)
NumAnalyses == 3
\* number of runs of main() over the same checkpoint directory
MaxRuns == 3
\* number of times a run is killed or interrupted
MaxStops == 1
\* number of environment faults (a checkpoint append raising, a lost race)
MaxFaults == 1
\* most work units of the catalogue whose processing raises
MaxFailing == 1
\* processes that share the checkpoint files in the store-level specification
NumProcs == 2
\* calls of mark_completed / mark_failed in the store-level specification
MaxCalls == 3
\* keys passed to these calls
NumStoreKeys == 2
\* processes that die in the middle of an append
MaxTears == 1
\* longest stream of marks in the record-level specification
MaxMarks == 5
\* length of an _id in the range specification (24 in the database)
IdLen == 2
\* largest argument of create_id_ranges: one more than there are hex characters
MaxRanges == 17
\* most marks a cursor delivers in the resource-level specification
MaxCursor == 3
\* CSV files of the CSV ETL, and calls of process_single_csv
NumCsv == 2
MaxCsvCalls == 4
\* keys of the rotating checkpoint, and calls of process_analysis
NumRotKeys == 3
MaxRotCalls == 5
\* longest outer ring passed to polygon_to_wkt
MaxRing == 3

(***************************************************************************)
(* Program constants, scaled down: the pool has NUM_WORKERS processes and  *)
(* main dispatches chunks of NUM_WORKERS * CHUNK_ROUNDS units (20 and 10   *)
(* in the source).                                                         *)
(***************************************************************************)
NUM_WORKERS == 2
CHUNK_ROUNDS == 1
\* marks per batch file (1000 in the source)
BATCH_SIZE == 2

chunk_size == NUM_WORKERS * CHUNK_ROUNDS

\* image_width and image_height of the analysis document, in pixels
image_width == 4
image_height == 3
\* the normalised coordinates of the model are the multiples n / Scale
Scale == 1000

\* CONFIG of the sequential pipeline, scaled down: rotation after
\* checkpoint_max_entries entries (50000) or when the checkpoint file is
\* larger than checkpoint_max_size (10 MB, here counted in entries); a
\* rotation keeps the keep_recent (1000) most recent entries
checkpoint_max_entries == 2
checkpoint_max_size == 3
keep_recent == 1

(***************************************************************************)
(* Characters, keys and records.                                           *)
(***************************************************************************)
NL == "\n"
BAR == "|"
Whitespace == {NL, " "}

Alpha == <<"a", "b", "c", "d", "e", "f">>

\* str(doc["_id"]) of the i-th analysis document: a two character key
KeyOf(i) == <<"k", Alpha[i]>>

\* the catalogue in the order db.analysis.find({}) returns it
Catalogue == [i \in 1..NumAnalyses |-> KeyOf(i)]

Keys == {KeyOf(i) : i \in 1..NumAnalyses}

IndexOf(k) == CHOOSE i \in 1..NumAnalyses : KeyOf(i) = k

\* str(e) of the exception a failing unit raises, and of a lost unlink race
ErrUnit == <<"E">>
ErrNoEnt == <<"N">>
\* str(e) of an OSError raised by an append to the in-progress file
ErrIO == <<"I">>

\* f"{analysis_id}\n"
CompletedRecord(k) == k \o <<NL>>

\* f"{analysis_id}|{error}\n"
FailedRecord(k, e) == k \o <<BAR>> \o e \o <<NL>>

(***************************************************************************)
(* Reading a checkpoint file: `for line in f`, line.strip(), and the two   *)
(* variants of _load_set.                                                  *)
(***************************************************************************)
RECURSIVE SplitLines(_)
\* the lines of a file, without their newline; an unterminated last
\* fragment is a line as well
SplitLines(f) ==
    IF f = <<>> THEN <<>>
    ELSE IF \E i \in 1..Len(f) : f[i] = NL
         THEN LET n == CHOOSE i \in 1..Len(f) :
                          f[i] = NL /\ \A j \in 1..(i - 1) : f[j] # NL
              IN  <<SubSeq(f, 1, n - 1)>> \o SplitLines(SubSeq(f, n + 1, Len(f)))
         ELSE <<f>>

RECURSIVE Strip(_)
Strip(l) ==
    IF l = <<>> THEN <<>>
    ELSE IF l[1] \in Whitespace THEN Strip(Tail(l))
    ELSE IF l[Len(l)] \in Whitespace THEN Strip(SubSeq(l, 1, Len(l) - 1))
    ELSE l

\* line.split("|")[0]
FirstField(l) ==
    IF \E i \in 1..Len(l) : l[i] = BAR
    THEN LET n == CHOOSE i \in 1..Len(l) :
                      l[i] = BAR /\ \A j \in 1..(i - 1) : l[j] # BAR
         IN  SubSeq(l, 1, n - 1)
    ELSE l

StrippedLines(f) ==
    {Strip(SplitLines(f)[i]) : i \in 1..Len(SplitLines(f))} \ {<<>>}

\* mongodb_to_rdf.py: ids.add(line.split("|")[0])
LoadSetOrig(f) == {FirstField(l) : l \in StrippedLines(f)}

\* mongodb_to_rdf_updated.py: ids.add(line)
LoadSetUpdated(f) == StrippedLines(f)

_load_set(v, f) == IF v = "orig" THEN LoadSetOrig(f) ELSE LoadSetUpdated(f)

\* a should_process that looks at the failed set only
ShouldProcessFailedOnly(completed, failed, k) == k \notin failed

\* should_process on a store whose sets were loaded as (completed, failed)
should_process(completed, failed, k) == k \notin completed /\ k \notin failed

(***************************************************************************)
(* The source: the i-th analysis has i convertible marks, so that units    *)
(* with a partial batch only, with full batches only and with both occur.  *)
(***************************************************************************)
NumMarks(k) == IndexOf(k)

\* the catalogues the model runs on: which units raise while streaming
Plans ==
    {p \in [Keys -> {"ok", "fail"}] :
        Cardinality({k \in Keys : p[k] = "fail"}) <= MaxFailing}

(***************************************************************************)
(* State.                                                                  *)
(***************************************************************************)
VARIABLES
    variant,        \* which pipeline file runs
    plan,           \* per unit: does streaming its marks raise
    completedFile,  \* completed_analyses.txt, a sequence of characters
    failedFile,     \* failed_analyses.txt
    inProgress,     \* in_progress.txt: [exists, entries]
    outFiles,       \* batch files on disk: <<key, batch_num>>
    mainpc,         \* position of main(): idle, loop, collect, interrupted
    runNo,          \* number of runs of main() started so far
    ckCompleted,    \* main's checkpoint.completed
    ckFailed,       \* main's checkpoint.failed
    toProcess,      \* analyses_to_process
    chunkStart,     \* chunk_start (1-based)
    ust,            \* per unit: position of its task in the pool
    wbatch,         \* per unit: the worker's batch_num
    wdone,          \* per unit: the worker's processed
    result,         \* per unit: the tuple its worker returned
    stops,          \* kills and interrupts so far
    faults,         \* environment faults so far
    dispatched,     \* history: units a worker started on in this run
    startCompleted, \* history: lines of the completed file at run start
    startFailed,    \* history: keys with a record in the failed file at run start
    ending,         \* how the last run ended: none (not yet), finished,
                    \* interrupted, killed, raised
    lost,           \* history: units in flight, without a record, at terminate
    lostRun,        \* history: the run that terminate happened in
    appC,           \* history: completed lines appended per unit in this run
    appF,           \* history: failed lines appended per unit in this run
    failedReturned, \* history: units whose worker returned 'failed' in this run
    perturbed,      \* history: a fault or a lost race changed a unit's outcome
    markType,       \* process_null_marks.py: the mark_type of the pool under way
    marks,          \* record level: the marks the cursor of one unit delivers
    cursor,         \* record level: index of the next mark of the stream
    batch_num,      \* record level: the worker's batch_num
    batch_marks,    \* record level: the worker's batch_marks
    processed,      \* record level: the worker's processed
    ttl_content,    \* record level: the members added to the batch being built
    writes,         \* record level: the batch files written, in the order written
    wpc,            \* record level: idle, loop, done
    wresult,        \* record level: what the worker returned or raised
    catalog,        \* path level: execution_id and imageid of each analysis document
    writers,        \* path level, history: <<path, key>> for every batch file written
    ppc,            \* store level, per process: none, ready, buffered, flushed, dead
    pop,            \* per process: the mark_* call in progress
    poff,           \* per process: offset of the descriptor when opened
    pcomp,          \* per process: self.completed of its store
    pfail,          \* per process: self.failed of its store
    calls,          \* mark_* calls started so far
    tears,          \* appends torn so far
    doneC,          \* history: keys whose mark_completed returned
    doneF,          \* history: <<key, error>> whose mark_failed returned
    nDone,          \* history: number of returned calls per file
    afterTear,      \* history: returned calls that started after an append was torn
    raced,          \* history: a record was written while another call held the same file open
    markedBy,       \* history: per process, keys it marked completed on its store
    failedAtCtor,   \* history: per process, keys marked failed before its store was built
    num_ranges,     \* create_id_ranges: its argument
    ranges,         \* create_id_ranges: the list being built
    ri,             \* create_id_ranges: the loop index i (0-based)
    rpc,            \* create_id_ranges: loop, last, done, queried
    probe,          \* an _id the range queries are evaluated on
    matched,        \* indexes of the ranges whose query matches the probe
    res_pc,         \* resources of one worker: start, find, loop, raised, returned
    conn,           \* its MongoClient: none, open, closed
    curs,           \* its marks_cursor: none, open, closed
    left,           \* marks the cursor has still to deliver
    res_status,     \* first element of the tuple the worker returned
    poly,           \* polygon_to_wkt: the geometry passed
    wkt_out,        \* polygon_to_wkt: what it returned
    csv_out,        \* CSV ETL, per CSV: its output file: absent, partial, complete
    csv_pc,         \* per CSV: position of process_single_csv
    csv_status,     \* per CSV: status of the last call that returned
    csv_calls,      \* calls of process_single_csv so far
    csv_finished,   \* history: CSVs whose output file a call finished writing
    working_set,    \* RotatingCheckpointManager.working_set: its keys in insertion order
    rot_failed,     \* RotatingCheckpointManager.failed: its keys
    entry_count,    \* RotatingCheckpointManager.entry_count
    ckfile,         \* etl_checkpoint.json: [exists, processed, failed]
    archives,       \* the archived checkpoint files
    rot_marked,     \* history: keys mark_processed was called with
    rot_again,      \* history: keys process_analysis converted after they were marked
    rot_calls       \* calls of process_analysis so far

vars ==
    <<variant, plan, completedFile, failedFile, inProgress, outFiles, mainpc,
      runNo, ckCompleted, ckFailed, toProcess, chunkStart, ust, wbatch, wdone,
      result, stops, faults, dispatched, startCompleted, startFailed, ending,
      lost, lostRun, appC, appF, failedReturned, perturbed, markType,
      marks, cursor, batch_num, batch_marks, processed, ttl_content, writes,
      wpc, wresult, catalog, writers,
      ppc, pop, poff, pcomp, pfail, calls, tears, doneC, doneF, nDone,
      afterTear, raced, markedBy, failedAtCtor,
      num_ranges, ranges, ri, rpc, probe, matched,
      res_pc, conn, curs, left, res_status, poly, wkt_out,
      csv_out, csv_pc, csv_status, csv_calls, csv_finished,
      working_set, rot_failed, entry_count, ckfile, archives, rot_marked,
      rot_again, rot_calls>>

markVars ==
    <<marks, cursor, batch_num, batch_marks, processed, ttl_content, writes,
      wpc, wresult>>

pathVars == <<catalog, writers>>

rangeVars == <<num_ranges, ranges, ri, rpc, probe, matched>>

resVars == <<res_pc, conn, curs, left, res_status>>

wktVars == <<poly, wkt_out>>

csvVars == <<csv_out, csv_pc, csv_status, csv_calls, csv_finished>>

rotVars ==
    <<working_set, rot_failed, entry_count, ckfile, archives, rot_marked,
      rot_again, rot_calls>>

\* the state of the stand-alone parts: nothing of the pipelines touches it
auxVars == <<rangeVars, resVars, wktVars, csvVars, rotVars>>

storeVars ==
    <<ppc, pop, poff, pcomp, pfail, calls, tears, doneC, doneF, nDone,
      afterTear, raced, markedBy, failedAtCtor>>

runVars ==
    <<plan, outFiles, mainpc, runNo, ckCompleted, ckFailed, toProcess,
      chunkStart, ust, wbatch, wdone, result, stops, faults, dispatched,
      startCompleted, startFailed, ending, lost, lostRun, appC,
      appF, failedReturned, perturbed, markType>>

Running == {"unlink", "mip", "stream", "markc", "markf"}
InFlight == Running \cup {"queued", "returned"}

Procs == 1..NumProcs

\* the CSV files found in the image directories
Csvs == 1..NumCsv

NoCall == [op |-> "none", key |-> <<>>, err |-> <<>>]

NoResult == [status |-> "none", err |-> <<>>, marks |-> 0, batches |-> 0]

Range(s) == {s[i] : i \in 1..Len(s)}

Min(a, b) == IF a < b THEN a ELSE b

\* no checkpoint file, no output file, no run started
FreshFiles ==
    /\ plan \in Plans
    /\ completedFile = <<>>
    /\ failedFile = <<>>
    /\ inProgress = [exists |-> FALSE, entries |-> {}]
    /\ outFiles = {}
    /\ mainpc = "idle"
    /\ runNo = 0
    /\ ckCompleted = {}
    /\ ckFailed = {}
    /\ toProcess = <<>>
    /\ chunkStart = 1
    /\ ust = [k \in Keys |-> "none"]
    /\ wbatch = [k \in Keys |-> 1]
    /\ wdone = [k \in Keys |-> 0]
    /\ result = [k \in Keys |-> NoResult]
    /\ stops = 0
    /\ faults = 0
    /\ dispatched = {}
    /\ startCompleted = {}
    /\ startFailed = {}
    /\ ending = "none"
    /\ lost = {}
    /\ lostRun = 0
    /\ appC = [k \in Keys |-> 0]
    /\ appF = [k \in Keys |-> 0]
    /\ failedReturned = {}
    /\ perturbed = FALSE
    /\ markType = "none"
    /\ ppc = [p \in Procs |-> "none"]
    /\ pop = [p \in Procs |-> NoCall]
    /\ poff = [p \in Procs |-> 0]
    /\ pcomp = [p \in Procs |-> {}]
    /\ pfail = [p \in Procs |-> {}]
    /\ calls = 0
    /\ tears = 0
    /\ doneC = {}
    /\ doneF = {}
    /\ nDone = [f \in {"completed", "failed"} |-> 0]
    /\ afterTear = {}
    /\ raced = FALSE
    /\ markedBy = [p \in Procs |-> {}]
    /\ failedAtCtor = [p \in Procs |-> {}]

NoWorkerResult == [status |-> "none", marks |-> 0, batches |-> 0]

\* no worker is looked at record by record
NoStream ==
    /\ marks = <<>>
    /\ cursor = 1
    /\ batch_num = 1
    /\ batch_marks = 0
    /\ processed = 0
    /\ ttl_content = <<>>
    /\ writes = <<>>
    /\ wpc = "idle"
    /\ wresult = NoWorkerResult

\* the output paths are not looked at
NoCatalog ==
    /\ catalog = [k \in Keys |-> <<k, k>>]
    /\ writers = {}

\* create_id_ranges has not been called
NoRanges ==
    /\ num_ranges = 1
    /\ ranges = <<>>
    /\ ri = 0
    /\ rpc = "idle"
    /\ probe = <<>>
    /\ matched = {}

\* no worker is looked at resource by resource
NoResources ==
    /\ res_pc = "idle"
    /\ conn = "none"
    /\ curs = "none"
    /\ left = 0
    /\ res_status = "none"

\* polygon_to_wkt has not been called
NoWkt ==
    /\ poly = [type |-> "none"]
    /\ wkt_out = [tag |-> "pending", ring |-> <<>>]

\* no CSV has been handed to process_single_csv
NoCsv ==
    /\ csv_out = [c \in Csvs |-> "absent"]
    /\ csv_pc = [c \in Csvs |-> "idle"]
    /\ csv_status = [c \in Csvs |-> "none"]
    /\ csv_calls = 0
    /\ csv_finished = {}

\* RotatingCheckpointManager.__init__ on a directory without checkpoint
NoRotate ==
    /\ working_set = <<>>
    /\ rot_failed = {}
    /\ entry_count = 0
    /\ ckfile = [exists |-> FALSE, processed |-> <<>>, failed |-> {}]
    /\ archives = <<>>
    /\ rot_marked = {}
    /\ rot_again = {}
    /\ rot_calls = 0

\* none of the stand-alone parts is looked at
NoAux == NoRanges /\ NoResources /\ NoWkt /\ NoCsv /\ NoRotate

\* nothing has run yet
Fresh == FreshFiles /\ NoStream /\ NoCatalog /\ NoAux

\* the three variants of the main pipeline
Init == variant \in {"orig", "updated", "fixed"} /\ Fresh

(***************************************************************************)
(* Checkpoint store operations (class ParallelCheckpointManager).          *)
(***************************************************************************)
\* a write at the offset the descriptor had when the file was opened (a file
\* opened without O_APPEND): what is there already is overwritten
FlushWriteAtOffset(f, off, bytes) ==
    SubSeq(f, 1, off) \o bytes \o SubSeq(f, off + Len(bytes) + 1, Len(f))

\* f.flush() on a file opened with open(path, "a"): one write(2) on an
\* O_APPEND descriptor, which puts the bytes at the current end of the file
\* whatever the offset `off` the descriptor had when it was opened
FlushWrite(f, off, bytes) == f \o bytes

\* open(completed_file, "a"); f.write(f"{analysis_id}\n"); f.flush()
mark_completed(f, k) == FlushWrite(f, Len(f), CompletedRecord(k))

\* open(failed_file, "a"); f.write(f"{analysis_id}|{error}\n"); f.flush()
mark_failed(f, k, e) == FlushWrite(f, Len(f), FailedRecord(k, e))

\* open(in_progress_file, "a"): creates the file and appends the entry
mark_in_progress(ip, k, r) ==
    [exists |-> TRUE, entries |-> ip.entries \cup {<<k, r>>}]

\* __init__ of the store on the in-progress file: mongodb_to_rdf.py touches
\* it, mongodb_to_rdf_updated.py unlinks it when it exists, and
\* FixedParallelCheckpointManager unlinks it and then touches it
InitInProgress(v, ip) ==
    IF v = "orig"
    THEN [exists |-> TRUE, entries |-> ip.entries]
    ELSE IF v = "fixed"
    THEN [exists |-> TRUE, entries |-> {}]
    ELSE [exists |-> FALSE, entries |-> {}]

\* a key has a line of its own in the completed file
HasCompletedLine(f, k) == k \in StrippedLines(f)

\* a key has a `key|reason` line in the failed file
HasFailedLine(f, k) ==
    \E l \in StrippedLines(f) : FirstField(l) = k /\ l # k

HasRecord(k) ==
    HasCompletedLine(completedFile, k) \/ HasFailedLine(failedFile, k)

(***************************************************************************)
(* main(): startup, the chunk loop, the result loop.                       *)
(***************************************************************************)
\* a filter that also skips the keys found in the in-progress file
PendingSkipInProgress(comp, fail) ==
    SelectSeq(Catalogue,
              LAMBDA k : /\ should_process(comp, fail, k)
                         /\ \A e \in inProgress.entries : e[1] # k)

\* analyses_to_process: the catalogue filtered by should_process
Pending(comp, fail) ==
    SelectSeq(Catalogue, LAMBDA k : should_process(comp, fail, k))

\* a terminate that kills the running workers and leaves the queued tasks
TerminateRunningOnly(u) ==
    [k \in Keys |-> IF u[k] \in Running \cup {"returned"} THEN "killed" ELSE u[k]]

\* pool.terminate(): queued tasks are dropped, running workers are killed
Terminate(u) == [k \in Keys |-> IF u[k] \in InFlight THEN "killed" ELSE u[k]]

\* chunk_ids = analyses_to_process[chunk_start : chunk_start + chunk_size]
Chunk(tp, cs) == SubSeq(tp, cs, Min(cs + chunk_size - 1, Len(tp)))

\* mongodb_to_rdf_fixed.py imports neither time nor Pool, gzip or datetime:
\* `start_time = time.time()` of main_fixed raises NameError as soon as there
\* is something to process
RaisesNameError(v) == v = "fixed"

StartRun ==
    /\ mainpc = "idle"
    /\ runNo < MaxRuns
    /\ runNo' = runNo + 1
    /\ ckCompleted' = _load_set(variant, completedFile)
    /\ ckFailed' = _load_set(variant, failedFile)
    /\ inProgress' = InitInProgress(variant, inProgress)
    /\ toProcess' = Pending(ckCompleted', ckFailed')
    /\ chunkStart' = 1
    /\ mainpc' = IF toProcess' = <<>> \/ RaisesNameError(variant)
                 THEN "idle" ELSE "loop"
    /\ ending' = IF toProcess' = <<>> THEN "finished"
                 ELSE IF RaisesNameError(variant) THEN "raised" ELSE "none"
    /\ ust' = [k \in Keys |-> "none"]
    /\ wbatch' = [k \in Keys |-> 1]
    /\ wdone' = [k \in Keys |-> 0]
    /\ result' = [k \in Keys |-> NoResult]
    /\ dispatched' = {}
    /\ startCompleted' = StrippedLines(completedFile)
    /\ startFailed' = {k \in Keys : HasFailedLine(failedFile, k)}
    /\ appC' = [k \in Keys |-> 0]
    /\ appF' = [k \in Keys |-> 0]
    /\ failedReturned' = {}
    /\ UNCHANGED <<storeVars, markVars, pathVars, auxVars, markType, variant, plan, completedFile, failedFile, outFiles, stops,
                   faults, lost, lostRun, perturbed>>

\* the head of `for chunk_start in range(...)`: submit the next chunk to
\* the pool, or leave the loop and the pool and log the final statistics
NextChunk ==
    /\ mainpc = "loop"
    /\ IF chunkStart > Len(toProcess)
       THEN /\ mainpc' = "idle"
            /\ ending' = "finished"
            /\ UNCHANGED ust
       ELSE /\ mainpc' = "collect"
            /\ ust' = [k \in Keys |->
                         IF k \in Range(Chunk(toProcess, chunkStart))
                         THEN "queued" ELSE ust[k]]
            /\ UNCHANGED ending
    /\ UNCHANGED <<storeVars, markVars, pathVars, auxVars, markType, variant, plan, completedFile, failedFile, inProgress,
                   outFiles, runNo, ckCompleted, ckFailed, toProcess,
                   chunkStart, wbatch, wdone, result, stops, faults,
                   dispatched, startCompleted, startFailed, lost, lostRun,
                   appC, appF, failedReturned, perturbed>>

(***************************************************************************)
(* process_analysis_worker: one task of the pool.                          *)
(***************************************************************************)
\* the pool hands tasks out in submission order, one at a time (chunksize=1)
NextTask(k) ==
    /\ ust[k] = "queued"
    /\ \A j \in Keys : ust[j] = "queued" => IndexOf(k) <= IndexOf(j)
    /\ Cardinality({j \in Keys : ust[j] \in Running}) < NUM_WORKERS

Completed(k) ==
    [status |-> "completed", err |-> <<>>, marks |-> wdone[k],
     batches |-> wbatch[k]]

\* a worker that reports an exception as a completed unit without marks
FailedAsCompleted(e) ==
    [status |-> "completed", err |-> e, marks |-> 0, batches |-> 0]

Failed(e) == [status |-> "failed", err |-> e, marks |-> 0, batches |-> 0]

\* the worker constructs its own store and records the unit as in progress.
\* mongodb_to_rdf.py: the store touches the in-progress file and a failure
\* of mark_in_progress is logged only. mongodb_to_rdf_updated.py: the store
\* tests in_progress_file.exists() and unlinks the file in a second step.
WorkerStart(k) ==
    /\ NextTask(k)
    /\ dispatched' = dispatched \cup {k}
    /\ wbatch' = [wbatch EXCEPT ![k] = 1]
    /\ wdone' = [wdone EXCEPT ![k] = 0]
    /\ IF variant = "orig"
       THEN /\ ust' = [ust EXCEPT ![k] = "stream"]
            /\ \/ /\ inProgress' = mark_in_progress(inProgress, k, runNo)
                  /\ UNCHANGED faults
               \/ /\ faults < MaxFaults
                  /\ faults' = faults + 1
                  /\ inProgress' = InitInProgress("orig", inProgress)
       ELSE /\ ust' = [ust EXCEPT ![k] = IF inProgress.exists
                                         THEN "unlink" ELSE "mip"]
            /\ UNCHANGED <<inProgress, faults>>
    /\ UNCHANGED <<storeVars, markVars, pathVars, auxVars, markType, variant, plan, completedFile, failedFile, outFiles, mainpc,
                   runNo, ckCompleted, ckFailed, toProcess, chunkStart, result,
                   stops, startCompleted, startFailed, ending,
                   lost, lostRun, appC, appF, failedReturned, perturbed>>

\* self.in_progress_file.unlink(): FileNotFoundError when another worker
\* removed the file since exists() was tested
WorkerUnlink(k) ==
    /\ ust[k] = "unlink"
    /\ IF inProgress.exists
       THEN /\ inProgress' = [exists |-> FALSE, entries |-> {}]
            /\ ust' = [ust EXCEPT ![k] = "mip"]
            /\ UNCHANGED <<result, failedReturned, perturbed>>
       ELSE /\ ust' = [ust EXCEPT ![k] = "returned"]
            /\ result' = [result EXCEPT ![k] = Failed(ErrNoEnt)]
            /\ failedReturned' = failedReturned \cup {k}
            /\ perturbed' = TRUE
            /\ UNCHANGED inProgress
    /\ UNCHANGED <<storeVars, markVars, pathVars, auxVars, markType, variant, plan, completedFile, failedFile, outFiles, mainpc,
                   runNo, ckCompleted, ckFailed, toProcess, chunkStart, wbatch,
                   wdone, stops, faults, dispatched, startCompleted,
                   startFailed, ending, lost, lostRun, appC, appF>>

\* checkpoint.mark_in_progress(analysis_id, worker_id) of the updated
\* variant: an exception here is the worker's 'failed' result
WorkerMarkInProgress(k) ==
    /\ ust[k] = "mip"
    /\ \/ /\ inProgress' = mark_in_progress(inProgress, k, runNo)
          /\ ust' = [ust EXCEPT ![k] = "stream"]
          /\ UNCHANGED <<result, failedReturned, perturbed, faults>>
       \/ /\ faults < MaxFaults
          /\ faults' = faults + 1
          /\ perturbed' = TRUE
          /\ ust' = [ust EXCEPT ![k] = "returned"]
          /\ result' = [result EXCEPT ![k] = Failed(ErrIO)]
          /\ failedReturned' = failedReturned \cup {k}
          /\ UNCHANGED inProgress
    /\ UNCHANGED <<storeVars, markVars, pathVars, auxVars, markType, variant, plan, completedFile, failedFile, outFiles, mainpc,
                   runNo, ckCompleted, ckFailed, toProcess, chunkStart, wbatch,
                   wdone, stops, dispatched, startCompleted, startFailed,
                   ending, lost, lostRun, appC, appF>>

\* the streaming loop up to the next full batch: BATCH_SIZE marks are
\* converted, batch_{batch_num} is written, batch_num += 1
WriteBatch(k) ==
    /\ ust[k] = "stream"
    /\ NumMarks(k) - wdone[k] >= BATCH_SIZE
    /\ outFiles' = outFiles \cup {<<k, wbatch[k]>>}
    /\ wdone' = [wdone EXCEPT ![k] = @ + BATCH_SIZE]
    /\ wbatch' = [wbatch EXCEPT ![k] = @ + 1]
    /\ UNCHANGED <<storeVars, markVars, pathVars, auxVars, markType, variant, plan, completedFile, failedFile, inProgress,
                   mainpc, runNo, ckCompleted, ckFailed, toProcess, chunkStart,
                   ust, result, stops, faults, dispatched, startCompleted,
                   startFailed, ending, lost, lostRun, appC, appF,
                   failedReturned, perturbed>>

\* a worker that drops the marks left over after the last full batch
FinalFlushSkipped(files, k, rest) == files

\* if batch_marks > 0: the final batch is written as batch_{batch_num}
FinalFlush(files, k, rest) ==
    IF rest > 0 THEN files \cup {<<k, wbatch[k]>>} ELSE files

\* the stream is exhausted: the remaining marks are flushed as the final
\* batch and the cursor is closed. The updated variant returns 'completed';
\* mongodb_to_rdf.py goes on to mark the unit completed itself.
StreamEnd(k) ==
    /\ ust[k] = "stream"
    /\ plan[k] = "ok"
    /\ NumMarks(k) - wdone[k] < BATCH_SIZE
    /\ wdone' = [wdone EXCEPT ![k] = NumMarks(k)]
    /\ outFiles' = FinalFlush(outFiles, k, NumMarks(k) - wdone[k])
    /\ IF variant = "orig"
       THEN /\ ust' = [ust EXCEPT ![k] = "markc"]
            /\ UNCHANGED result
       ELSE /\ ust' = [ust EXCEPT ![k] = "returned"]
            /\ result' = [result EXCEPT ![k] =
                            [Completed(k) EXCEPT !.marks = NumMarks(k)]]
    /\ UNCHANGED <<storeVars, markVars, pathVars, auxVars, markType, variant, plan, completedFile, failedFile, inProgress,
                   mainpc, runNo, ckCompleted, ckFailed, toProcess, chunkStart,
                   wbatch, stops, faults, dispatched, startCompleted,
                   startFailed, ending, lost, lostRun, appC, appF,
                   failedReturned, perturbed>>

\* an exception while streaming (connection loss, write failure): the
\* updated variant returns 'failed'; mongodb_to_rdf.py first tries to mark
\* the unit failed itself
StreamRaise(k) ==
    /\ ust[k] = "stream"
    /\ plan[k] = "fail"
    /\ IF variant = "orig"
       THEN /\ ust' = [ust EXCEPT ![k] = "markf"]
            /\ UNCHANGED <<result, failedReturned>>
       ELSE /\ ust' = [ust EXCEPT ![k] = "returned"]
            /\ result' = [result EXCEPT ![k] = Failed(ErrUnit)]
            /\ failedReturned' = failedReturned \cup {k}
    /\ UNCHANGED <<storeVars, markVars, pathVars, auxVars, markType, variant, plan, completedFile, failedFile, inProgress,
                   outFiles, mainpc, runNo, ckCompleted, ckFailed, toProcess,
                   chunkStart, wbatch, wdone, stops, faults, dispatched,
                   startCompleted, startFailed, ending, lost, lostRun,
                   appC, appF, perturbed>>

\* mongodb_to_rdf.py, worker: try: checkpoint.mark_completed(analysis_id)
\* except: warning; return ("completed", ...)
WorkerMarkCompleted(k) ==
    /\ ust[k] = "markc"
    /\ \/ /\ completedFile' = mark_completed(completedFile, k)
          /\ appC' = [appC EXCEPT ![k] = @ + 1]
          /\ UNCHANGED <<faults, perturbed>>
       \/ /\ faults < MaxFaults
          /\ faults' = faults + 1
          /\ perturbed' = TRUE
          /\ UNCHANGED <<completedFile, appC>>
    /\ ust' = [ust EXCEPT ![k] = "returned"]
    /\ result' = [result EXCEPT ![k] = Completed(k)]
    /\ UNCHANGED <<storeVars, markVars, pathVars, auxVars, markType, variant, plan, failedFile, inProgress, outFiles, mainpc,
                   runNo, ckCompleted, ckFailed, toProcess, chunkStart, wbatch,
                   wdone, stops, dispatched, startCompleted, startFailed,
                   ending, lost, lostRun, appF, failedReturned>>

\* mongodb_to_rdf.py, worker: try: ParallelCheckpointManager(dir)
\* .mark_failed(analysis_id, str(e)) except: pass; return ("failed", ...)
WorkerMarkFailed(k) ==
    /\ ust[k] = "markf"
    /\ \/ /\ failedFile' = mark_failed(failedFile, k, ErrUnit)
          /\ appF' = [appF EXCEPT ![k] = @ + 1]
          /\ UNCHANGED <<faults, perturbed>>
       \/ /\ faults < MaxFaults
          /\ faults' = faults + 1
          /\ perturbed' = TRUE
          /\ UNCHANGED <<failedFile, appF>>
    /\ inProgress' = InitInProgress("orig", inProgress)
    /\ ust' = [ust EXCEPT ![k] = "returned"]
    /\ result' = [result EXCEPT ![k] = Failed(ErrUnit)]
    /\ failedReturned' = failedReturned \cup {k}
    /\ UNCHANGED <<storeVars, markVars, pathVars, auxVars, markType, variant, plan, completedFile, outFiles, mainpc, runNo,
                   ckCompleted, ckFailed, toProcess, chunkStart, wbatch, wdone,
                   stops, dispatched, startCompleted, startFailed, ending, lost, lostRun, appC>>

(***************************************************************************)
(* main(): the result loop, the interrupt handler, and the process dying.  *)
(***************************************************************************)
\* a result loop that ends at the first result of the chunk
AnyConsumed(u, tp, cs) == \E k \in Range(Chunk(tp, cs)) : u[k] = "consumed"

\* the `for ... in pool.imap_unordered(...)` loop ends when the result of
\* every task of the chunk has been taken
AllConsumed(u, tp, cs) == \A k \in Range(Chunk(tp, cs)) : u[k] = "consumed"

\* one iteration of `for i, result in enumerate(pool.imap_unordered(...))`.
\* mongodb_to_rdf.py records nothing for 'completed' and calls mark_failed
\* for 'failed'; mongodb_to_rdf_updated.py calls mark_completed or
\* mark_failed. An exception of the append leaves main() through the
\* `with Pool`, which terminates the pool.
Consume(k) ==
    /\ mainpc = "collect"
    /\ ust[k] = "returned"
    /\ \/ /\ IF result[k].status = "completed"
             THEN IF variant = "orig"
                  THEN UNCHANGED <<completedFile, failedFile, appC, appF>>
                  ELSE /\ completedFile' = mark_completed(completedFile, k)
                       /\ appC' = [appC EXCEPT ![k] = @ + 1]
                       /\ UNCHANGED <<failedFile, appF>>
             ELSE /\ failedFile' = mark_failed(failedFile, k, result[k].err)
                  /\ appF' = [appF EXCEPT ![k] = @ + 1]
                  /\ UNCHANGED <<completedFile, appC>>
          /\ ust' = [ust EXCEPT ![k] = "consumed"]
          /\ IF AllConsumed(ust', toProcess, chunkStart)
             THEN /\ mainpc' = "loop"
                  /\ chunkStart' = chunkStart + chunk_size
             ELSE UNCHANGED <<mainpc, chunkStart>>
          /\ UNCHANGED <<faults, perturbed, ending>>
       \/ /\ ~(variant = "orig" /\ result[k].status = "completed")
          /\ faults < MaxFaults
          /\ faults' = faults + 1
          /\ perturbed' = TRUE
          /\ ust' = Terminate(ust)
          /\ mainpc' = "idle"
          /\ ending' = "raised"
          /\ UNCHANGED <<completedFile, failedFile, appC, appF, chunkStart>>
    /\ UNCHANGED <<storeVars, markVars, pathVars, auxVars, markType, variant, plan, inProgress, outFiles, runNo, ckCompleted,
                   ckFailed, toProcess, wbatch, wdone, result, stops,
                   dispatched, startCompleted, startFailed, lost,
                   lostRun, failedReturned>>

\* SIGINT reaches main() inside the try block: KeyboardInterrupt is raised
Interrupt ==
    /\ mainpc \in {"loop", "collect"}
    /\ stops < MaxStops
    /\ stops' = stops + 1
    /\ mainpc' = "interrupted"
    /\ UNCHANGED <<storeVars, markVars, pathVars, auxVars, markType, variant, plan, completedFile, failedFile, inProgress,
                   outFiles, runNo, ckCompleted, ckFailed, toProcess,
                   chunkStart, ust, wbatch, wdone, result, faults, dispatched,
                   startCompleted, startFailed, ending, lost,
                   lostRun, appC, appF, failedReturned, perturbed>>

\* except KeyboardInterrupt: pool.terminate(); pool.join(); then the final
\* statistics and the end of main()
HandleInterrupt ==
    /\ mainpc = "interrupted"
    /\ lost' = {k \in Keys : ust[k] \in InFlight /\ ~HasRecord(k)}
    /\ lostRun' = runNo
    /\ ust' = Terminate(ust)
    /\ mainpc' = "idle"
    /\ ending' = "interrupted"
    /\ UNCHANGED <<storeVars, markVars, pathVars, auxVars, markType, variant, plan, completedFile, failedFile, inProgress,
                   outFiles, runNo, ckCompleted, ckFailed, toProcess,
                   chunkStart, wbatch, wdone, result, stops, faults,
                   dispatched, startCompleted, startFailed, appC, appF,
                   failedReturned, perturbed>>

\* the orchestrator and its pool are killed
Kill ==
    /\ mainpc # "idle"
    /\ stops < MaxStops
    /\ stops' = stops + 1
    /\ ust' = Terminate(ust)
    /\ mainpc' = "idle"
    /\ ending' = "killed"
    /\ UNCHANGED <<storeVars, markVars, pathVars, auxVars, markType, variant, plan, completedFile, failedFile, inProgress,
                   outFiles, runNo, ckCompleted, ckFailed, toProcess,
                   chunkStart, wbatch, wdone, result, faults, dispatched,
                   startCompleted, startFailed, lost, lostRun,
                   appC, appF, failedReturned, perturbed>>

Next ==
    \/ StartRun
    \/ NextChunk
    \/ \E k \in Keys : WorkerStart(k)
    \/ \E k \in Keys : WorkerUnlink(k)
    \/ \E k \in Keys : WorkerMarkInProgress(k)
    \/ \E k \in Keys : WriteBatch(k)
    \/ \E k \in Keys : StreamEnd(k)
    \/ \E k \in Keys : StreamRaise(k)
    \/ \E k \in Keys : WorkerMarkCompleted(k)
    \/ \E k \in Keys : WorkerMarkFailed(k)
    \/ \E k \in Keys : Consume(k)
    \/ Interrupt
    \/ HandleInterrupt
    \/ Kill

Spec == Init /\ [][Next]_vars

(***************************************************************************)
(* Store level: processes (the orchestrator and the workers) that share    *)
(* the checkpoint files, each with a store of its own, calling             *)
(* mark_completed and mark_failed one system call at a time.               *)
(***************************************************************************)
StoreKeys == {KeyOf(i) : i \in 1..NumStoreKeys}

\* the error text passed to mark_failed with a key; every second one holds
\* the field separator
ErrorOf(k) == IF IndexOf(k) % 2 = 1 THEN ErrUnit ELSE <<"x", BAR, "y">>

CallRecord(c) ==
    IF c.op = "completed" THEN CompletedRecord(c.key)
    ELSE FailedRecord(c.key, c.err)

FileOf(op) == IF op = "completed" THEN completedFile ELSE failedFile

\* ParallelCheckpointManager(checkpoint_dir): both sets are loaded and the
\* in-progress file is touched or unlinked
Construct(p) ==
    /\ ppc[p] \in {"none", "ready"}
    /\ ppc' = [ppc EXCEPT ![p] = "ready"]
    /\ pcomp' = [pcomp EXCEPT ![p] = _load_set(variant, completedFile)]
    /\ pfail' = [pfail EXCEPT ![p] = _load_set(variant, failedFile)]
    /\ inProgress' = InitInProgress(variant, inProgress)
    /\ markedBy' = [markedBy EXCEPT ![p] = {}]
    /\ failedAtCtor' = [failedAtCtor EXCEPT ![p] = {c[1] : c \in doneF}]
    /\ UNCHANGED <<runVars, markVars, pathVars, auxVars, variant, completedFile, failedFile, pop, poff,
                   calls, tears, doneC, doneF, nDone, afterTear, raced>>

\* mark_completed / mark_failed up to f.write(): the process takes its own
\* checkpoint_lock (mongodb_to_rdf.py), opens the file for append and puts
\* the record into the file object's buffer
MarkBegin(p, c) ==
    /\ ppc[p] = "ready"
    /\ calls < MaxCalls
    /\ calls' = calls + 1
    /\ ppc' = [ppc EXCEPT ![p] = "buffered"]
    /\ pop' = [pop EXCEPT ![p] = [op |-> c.op, key |-> c.key, err |-> c.err,
                                 late |-> tears > 0]]
    /\ poff' = [poff EXCEPT ![p] = Len(FileOf(c.op))]
    /\ UNCHANGED <<runVars, markVars, pathVars, auxVars, variant, completedFile, failedFile, inProgress,
                   pcomp, pfail, tears, doneC, doneF, nDone, afterTear, raced,
                   markedBy, failedAtCtor>>

\* f.flush() (and os.fsync): the buffered record reaches the file
MarkFlush(p) ==
    /\ ppc[p] = "buffered"
    /\ ppc' = [ppc EXCEPT ![p] = "flushed"]
    /\ IF pop[p].op = "completed"
       THEN /\ completedFile' =
                  FlushWrite(completedFile, poff[p], CallRecord(pop[p]))
            /\ UNCHANGED failedFile
       ELSE /\ failedFile' =
                  FlushWrite(failedFile, poff[p], CallRecord(pop[p]))
            /\ UNCHANGED completedFile
    /\ raced' = (raced \/ \E q \in Procs \ {p} :
                              ppc[q] = "buffered" /\ pop[q].op = pop[p].op)
    /\ UNCHANGED <<runVars, markVars, pathVars, auxVars, variant, inProgress, pop, poff, pcomp, pfail,
                   calls, tears, doneC, doneF, nDone, afterTear, markedBy,
                   failedAtCtor>>

\* the file is closed, the lock released, the call returns; the store's own
\* sets are not touched by mark_completed or mark_failed
MarkReturn(p) ==
    /\ ppc[p] = "flushed"
    /\ ppc' = [ppc EXCEPT ![p] = "ready"]
    /\ pop' = [pop EXCEPT ![p] = NoCall]
    /\ IF pop[p].op = "completed"
       THEN /\ doneC' = doneC \cup {pop[p].key}
            /\ markedBy' = [markedBy EXCEPT ![p] = @ \cup {pop[p].key}]
            /\ UNCHANGED doneF
       ELSE /\ doneF' = doneF \cup {<<pop[p].key, pop[p].err>>}
            /\ UNCHANGED <<doneC, markedBy>>
    /\ nDone' = [nDone EXCEPT ![pop[p].op] = @ + 1]
    /\ afterTear' = IF pop[p].late THEN afterTear \cup {pop[p]} ELSE afterTear
    /\ UNCHANGED <<runVars, markVars, pathVars, auxVars, variant, completedFile, failedFile, inProgress,
                   poff, pcomp, pfail, calls, tears, raced, failedAtCtor>>

\* the process dies while the record is being written: a proper, non-empty
\* prefix of the record is in the file
MarkTear(p) ==
    /\ ppc[p] = "buffered"
    /\ tears < MaxTears
    /\ tears' = tears + 1
    /\ ppc' = [ppc EXCEPT ![p] = "dead"]
    /\ \E n \in 1..(Len(CallRecord(pop[p])) - 1) :
          IF pop[p].op = "completed"
          THEN /\ completedFile' =
                     FlushWrite(completedFile, poff[p],
                                SubSeq(CallRecord(pop[p]), 1, n))
               /\ UNCHANGED failedFile
          ELSE /\ failedFile' =
                     FlushWrite(failedFile, poff[p],
                                SubSeq(CallRecord(pop[p]), 1, n))
               /\ UNCHANGED completedFile
    /\ UNCHANGED <<runVars, markVars, pathVars, auxVars, variant, inProgress, pop, poff, pcomp, pfail,
                   calls, doneC, doneF, nDone, afterTear, raced, markedBy,
                   failedAtCtor>>

InitStore == Init /\ \A k \in Keys : plan[k] = "ok"

NextStore ==
    \/ \E p \in Procs : Construct(p)
    \/ \E p \in Procs, k \in StoreKeys :
          MarkBegin(p, [op |-> "completed", key |-> k, err |-> <<>>])
    \/ \E p \in Procs, k \in StoreKeys :
          MarkBegin(p, [op |-> "failed", key |-> k, err |-> ErrorOf(k)])
    \/ \E p \in Procs : MarkFlush(p)
    \/ \E p \in Procs : MarkReturn(p)
    \/ \E p \in Procs : MarkTear(p)

SpecStore == InitStore /\ [][NextStore]_vars

\* no call is in progress
Quiescent == \A p \in Procs : ppc[p] \in {"none", "ready", "dead"}

(***************************************************************************)
(* debug-mongo/process_orphaned_marks.py and process_null_marks.py: a pool *)
(* over execution ids with a completed-only checkpoint, and three pools    *)
(* over _id ranges with no checkpoint.                                     *)
(***************************************************************************)
MarkTypes == <<"missing", "null", "empty">>

\* process_orphaned_marks.py: completed.add(line.strip()) for every line
LoadCompletedOrphaned(f) ==
    {Strip(SplitLines(f)[i]) : i \in 1..Len(SplitLines(f))}

\* the work items of one pool of process_null_marks.py, one per _id range;
\* item i stands for worker_id i - 1
WorkItems == SubSeq(Catalogue, 1, NUM_WORKERS)

\* the path of a batch file: OUTPUT_DIR/execution_id/batch_n, or
\* OUTPUT_DIR/mark_type/batch_{worker_id}_n
OutputFile(k, b) ==
    IF variant = "null" THEN <<markType, k, b>> ELSE <<k, b>>

\* main() of process_orphaned_marks.py up to the pool: the completed file is
\* loaded and every execution id without a line is submitted.
\* process_null_marks_parallel(): the first pool, for marks of type missing.
DebugStart ==
    /\ mainpc = "idle"
    /\ runNo < MaxRuns
    /\ runNo' = runNo + 1
    /\ IF variant = "orphaned"
       THEN /\ ckCompleted' = LoadCompletedOrphaned(completedFile)
            /\ toProcess' = SelectSeq(Catalogue, LAMBDA k : k \notin ckCompleted')
            /\ markType' = "none"
       ELSE /\ ckCompleted' = {}
            /\ toProcess' = WorkItems
            /\ markType' = MarkTypes[1]
    /\ IF toProcess' = <<>>
       THEN /\ mainpc' = "idle"
            /\ ending' = "finished"
       ELSE /\ mainpc' = "collect"
            /\ ending' = "none"
    /\ ust' = [k \in Keys |-> IF k \in Range(toProcess') THEN "queued" ELSE "none"]
    /\ wbatch' = [k \in Keys |-> 1]
    /\ wdone' = [k \in Keys |-> 0]
    /\ result' = [k \in Keys |-> NoResult]
    /\ dispatched' = {}
    /\ startCompleted' = StrippedLines(completedFile)
    /\ appC' = [k \in Keys |-> 0]
    /\ failedReturned' = {}
    /\ UNCHANGED <<storeVars, markVars, pathVars, auxVars, variant, plan, completedFile, failedFile,
                   inProgress, outFiles, ckFailed, chunkStart, stops, faults,
                   startFailed, lost, lostRun, appF, perturbed>>

\* process_execution_id / process_mark_range up to the loop over the cursor
DebugWorkerStart(k) ==
    /\ mainpc = "collect"
    /\ NextTask(k)
    /\ ust' = [ust EXCEPT ![k] = "stream"]
    /\ wbatch' = [wbatch EXCEPT ![k] = 1]
    /\ wdone' = [wdone EXCEPT ![k] = 0]
    /\ dispatched' = dispatched \cup {k}
    /\ UNCHANGED <<storeVars, markVars, pathVars, auxVars, markType, variant, plan, completedFile,
                   failedFile, inProgress, outFiles, mainpc, runNo,
                   ckCompleted, ckFailed, toProcess, chunkStart, result,
                   stops, faults, startCompleted, startFailed, ending, lost,
                   lostRun, appC, appF, failedReturned, perturbed>>

\* the loop over the cursor up to the next full batch
DebugWriteBatch(k) ==
    /\ ust[k] = "stream"
    /\ NumMarks(k) - wdone[k] >= BATCH_SIZE
    /\ outFiles' = outFiles \cup {OutputFile(k, wbatch[k])}
    /\ wdone' = [wdone EXCEPT ![k] = @ + BATCH_SIZE]
    /\ wbatch' = [wbatch EXCEPT ![k] = @ + 1]
    /\ UNCHANGED <<storeVars, markVars, pathVars, auxVars, markType, variant, plan, completedFile,
                   failedFile, inProgress, mainpc, runNo, ckCompleted,
                   ckFailed, toProcess, chunkStart, ust, result, stops,
                   faults, dispatched, startCompleted, startFailed, ending,
                   lost, lostRun, appC, appF, failedReturned, perturbed>>

\* the cursor is exhausted: the final batch is written, the cursor closed,
\* ("completed", id, processed) returned
DebugStreamEnd(k) ==
    /\ ust[k] = "stream"
    /\ plan[k] = "ok"
    /\ NumMarks(k) - wdone[k] < BATCH_SIZE
    /\ wdone' = [wdone EXCEPT ![k] = NumMarks(k)]
    /\ outFiles' = IF NumMarks(k) - wdone[k] > 0
                   THEN outFiles \cup {OutputFile(k, wbatch[k])} ELSE outFiles
    /\ ust' = [ust EXCEPT ![k] = "returned"]
    /\ result' = [result EXCEPT ![k] =
                    [Completed(k) EXCEPT !.marks = NumMarks(k), !.batches = 0]]
    /\ UNCHANGED <<storeVars, markVars, pathVars, auxVars, markType, variant, plan, completedFile,
                   failedFile, inProgress, mainpc, runNo, ckCompleted,
                   ckFailed, toProcess, chunkStart, wbatch, stops, faults,
                   dispatched, startCompleted, startFailed, ending, lost,
                   lostRun, appC, appF, failedReturned, perturbed>>

\* the cursor raises: except Exception as e: return ("failed", id, 0, str(e))
DebugStreamRaise(k) ==
    /\ ust[k] = "stream"
    /\ plan[k] = "fail"
    /\ ust' = [ust EXCEPT ![k] = "returned"]
    /\ result' = [result EXCEPT ![k] = Failed(ErrUnit)]
    /\ failedReturned' = failedReturned \cup {k}
    /\ UNCHANGED <<storeVars, markVars, pathVars, auxVars, markType, variant, plan, completedFile,
                   failedFile, inProgress, outFiles, mainpc, runNo,
                   ckCompleted, ckFailed, toProcess, chunkStart, wbatch,
                   wdone, stops, faults, dispatched, startCompleted,
                   startFailed, ending, lost, lostRun, appC, appF, perturbed>>

\* one iteration of `for result in pool.imap_unordered(...)`:
\* process_orphaned_marks.py appends the id of a 'completed' result to
\* completed_orphaned.txt; process_null_marks.py adds up the marks; neither
\* has a branch for 'failed'
DebugConsume(k) ==
    /\ mainpc = "collect"
    /\ ust[k] = "returned"
    /\ ust' = [ust EXCEPT ![k] = "consumed"]
    /\ IF variant = "orphaned" /\ result[k].status = "completed"
       THEN /\ completedFile' = mark_completed(completedFile, k)
            /\ appC' = [appC EXCEPT ![k] = @ + 1]
       ELSE UNCHANGED <<completedFile, appC>>
    /\ mainpc' = IF \A j \in Range(toProcess) : ust'[j] = "consumed"
                 THEN "loop" ELSE "collect"
    /\ UNCHANGED <<storeVars, markVars, pathVars, auxVars, markType, variant, plan, failedFile, inProgress,
                   outFiles, runNo, ckCompleted, ckFailed, toProcess,
                   chunkStart, wbatch, wdone, result, stops, faults,
                   dispatched, startCompleted, startFailed, ending, lost,
                   lostRun, appF, failedReturned, perturbed>>

\* the pool is left. process_orphaned_marks.py logs the totals and returns;
\* process_null_marks.py opens the pool of the next mark type, and returns
\* after the third
DebugPoolDone ==
    /\ mainpc = "loop"
    /\ IF variant = "null" /\ markType # MarkTypes[Len(MarkTypes)]
       THEN /\ markType' = MarkTypes[1 + CHOOSE i \in 1..Len(MarkTypes) :
                                           MarkTypes[i] = markType]
            /\ mainpc' = "collect"
            /\ ust' = [k \in Keys |->
                         IF k \in Range(toProcess) THEN "queued" ELSE "none"]
            /\ UNCHANGED ending
       ELSE /\ mainpc' = "idle"
            /\ ending' = "finished"
            /\ UNCHANGED <<markType, ust>>
    /\ UNCHANGED <<storeVars, markVars, pathVars, auxVars, variant, plan, completedFile, failedFile,
                   inProgress, outFiles, runNo, ckCompleted, ckFailed,
                   toProcess, chunkStart, wbatch, wdone, result, stops,
                   faults, dispatched, startCompleted, startFailed, lost,
                   lostRun, appC, appF, failedReturned, perturbed>>

InitDebug == variant \in {"orphaned", "null"} /\ Fresh

NextDebug ==
    \/ DebugStart
    \/ \E k \in Keys : DebugWorkerStart(k)
    \/ \E k \in Keys : DebugWriteBatch(k)
    \/ \E k \in Keys : DebugStreamEnd(k)
    \/ \E k \in Keys : DebugStreamRaise(k)
    \/ \E k \in Keys : DebugConsume(k)
    \/ DebugPoolDone

SpecDebug == InitDebug /\ [][NextDebug]_vars

(***************************************************************************)
(* One worker, record by record: polygon_to_wkt, add_mark_to_ttl and the   *)
(* streaming loop of process_analysis_worker (mongo-etl variants), and     *)
(* polygon_to_wkt, add_mark_as_feature and process_analysis of the         *)
(* sequential mongodb_to_rdf.py (variant "rotating").                      *)
(***************************************************************************)
\* a coordinate value of a document: a number, or something that is not one
\* (the number n / Scale)
Num(n) == <<"num", n>>
Str == <<"str", 0>>
IsNumber(v) == v[1] = "num"

\* normalised corner points of an outer ring, not closed
Ring ==
    << <<Num(0), Num(0)>>, <<Num(Scale), Num(0)>>, <<Num(Scale), Num(Scale)>> >>

\* the geometries a mark can carry
Polygon == [type |-> "Polygon", coordinates |-> <<Ring>>]
Point == [type |-> "Point", coordinates |-> <<Num(0), Num(0)>>]
NoCoordinates == [type |-> "Polygon"]
EmptyCoordinates == [type |-> "Polygon", coordinates |-> <<>>]
EmptyRing == [type |-> "Polygon", coordinates |-> << <<>> >>]
NonNumeric ==
    [type |-> "Polygon",
     coordinates |-> << << <<Str, Num(0)>>, <<Num(1), Num(1)>> >> >>]

Geometries ==
    {Polygon, Point, NoCoordinates, EmptyCoordinates, EmptyRing, NonNumeric}

Malformed == Geometries \ {Polygon}

\* the streams of the model: every sequence of at most MaxMarks geometries;
\* the mark at position i has _id i
Streams ==
    UNION {[1..n -> Geometries] : n \in 0..MaxMarks}

MarkOf(i, g) == [id |-> i, geometry |-> g]

None == [tag |-> "none", ring |-> <<>>]
Raise == [tag |-> "raise", ring |-> <<>>]
Wkt(r) == [tag |-> "wkt", ring |-> r]

\* f"{x * image_width:.2f}" of the coordinate n / Scale and the dimension w:
\* the number of hundredths of a pixel nearest to n * w / Scale (no
\* coordinate of the model lies half way between two of them)
Format2f(n, w) == (2 * 100 * n * w + Scale) \div (2 * Scale)

\* the list wkt_coords before it is closed
FormatRing(coords) ==
    [i \in 1..Len(coords) |->
        <<Format2f(coords[i][1][2], image_width),
          Format2f(coords[i][2][2], image_height)>>]

\* a closing step that appends the first pair whatever the last one is
CloseRingAlways(wkt_coords) == Append(wkt_coords, wkt_coords[1])

\* if wkt_coords[0] != wkt_coords[-1]: wkt_coords.append(wkt_coords[0])
CloseRing(wkt_coords) ==
    IF wkt_coords[1] # wkt_coords[Len(wkt_coords)]
    THEN Append(wkt_coords, wkt_coords[1])
    ELSE wkt_coords

\* the body of polygon_to_wkt, without the try/except of the mongo-etl
\* variants: None, an exception, or the denormalised, closed ring
WktBody(g) ==
    IF g.type # "Polygon" THEN None
    ELSE LET outer == IF "coordinates" \in DOMAIN g
                      THEN g.coordinates ELSE << <<>> >>
         IN  IF outer = <<>> THEN Raise
             ELSE LET coords == outer[1]
                  IN  IF coords = <<>> THEN None
                      ELSE IF \E i \in 1..Len(coords) :
                                 ~IsNumber(coords[i][1]) \/ ~IsNumber(coords[i][2])
                      THEN Raise
                      ELSE Wkt(CloseRing(FormatRing(coords)))

\* polygon_to_wkt: the mongo-etl variants turn every exception into None
polygon_to_wkt(v, g) ==
    IF v # "rotating" /\ WktBody(g).tag = "raise" THEN None ELSE WktBody(g)

\* add_mark_to_ttl / add_mark_as_feature: "ok" when a member was added,
\* "skip" when there is no WKT, "raise" when the exception leaves the call
add_mark(v, mark) ==
    LET w == polygon_to_wkt(v, mark.geometry)
    IN  IF w.tag = "wkt" THEN "ok" ELSE IF w.tag = "none" THEN "skip" ELSE "raise"

\* a loop that counts every mark that did not raise
AcceptedAlways(r) == r # "raise"

\* `if success:` in the loop
Accepted(r) == r = "ok"

\* a batch that is written one member late
BatchFullLate(n) == n > BATCH_SIZE

\* `if batch_marks >= BATCH_SIZE:`
BatchFull(n) == n >= BATCH_SIZE

\* a member put in front of the batch being built
AddMemberFront(content, id) == <<id>> \o content

\* ttl_content += mark_ttl
AddMember(content, id) == Append(content, id)

\* gzip.open(batch_{batch_num}).write(ttl_content)
BatchFile(n, content) == [num |-> n, members |-> content]

\* the worker reaches the loop: batch_num = 1, batch_marks = 0,
\* processed = 0 and the header of the first batch
StreamStart ==
    /\ wpc = "idle"
    /\ wpc' = "loop"
    /\ cursor' = 1
    /\ batch_num' = 1
    /\ batch_marks' = 0
    /\ processed' = 0
    /\ ttl_content' = <<>>
    /\ UNCHANGED <<runVars, storeVars, pathVars, auxVars, variant, completedFile,
                   failedFile, inProgress, marks, writes, wresult>>

\* one iteration of `for mark in marks_cursor`: the mark is converted and
\* added, and the batch is written when it is full. In the sequential
\* pipeline an exception of the conversion reaches `except Exception` of
\* process_analysis, which marks the analysis failed and raises again.
ProcessMark ==
    /\ wpc = "loop"
    /\ cursor <= Len(marks)
    /\ LET r == add_mark(variant, MarkOf(cursor, marks[cursor]))
           n == IF Accepted(r) THEN batch_marks + 1 ELSE batch_marks
           c == IF Accepted(r) THEN AddMember(ttl_content, cursor)
                ELSE ttl_content
       IN  IF r = "raise"
           THEN /\ wpc' = "done"
                /\ wresult' = [status |-> "failed", marks |-> 0, batches |-> 0]
                /\ UNCHANGED <<cursor, batch_num, batch_marks, processed,
                               ttl_content, writes>>
           ELSE /\ cursor' = cursor + 1
                /\ processed' = IF Accepted(r) THEN processed + 1 ELSE processed
                /\ IF BatchFull(n)
                   THEN /\ writes' = Append(writes, BatchFile(batch_num, c))
                        /\ batch_num' = batch_num + 1
                        /\ batch_marks' = 0
                        /\ ttl_content' = <<>>
                   ELSE /\ batch_marks' = n
                        /\ ttl_content' = c
                        /\ UNCHANGED <<writes, batch_num>>
                /\ UNCHANGED <<wpc, wresult>>
    /\ UNCHANGED <<runVars, storeVars, pathVars, auxVars, variant, completedFile,
                   failedFile, inProgress, marks>>

\* the cursor is exhausted: `if batch_marks > 0` the remaining members are
\* written, and ("completed", analysis_id, processed, batch_num) is
\* returned (the sequential pipeline logs the two numbers)
EndOfStream ==
    /\ wpc = "loop"
    /\ cursor > Len(marks)
    /\ writes' = IF batch_marks > 0
                 THEN Append(writes, BatchFile(batch_num, ttl_content))
                 ELSE writes
    /\ wpc' = "done"
    /\ wresult' = [status |-> "completed", marks |-> processed,
                   batches |-> batch_num]
    /\ UNCHANGED <<runVars, storeVars, pathVars, auxVars, variant, completedFile,
                   failedFile, inProgress, marks, cursor, batch_num,
                   batch_marks, processed, ttl_content>>

InitMarks ==
    /\ variant \in {"orig", "updated", "rotating"}
    /\ FreshFiles
    /\ \A k \in Keys : plan[k] = "ok"
    /\ NoCatalog
    /\ NoAux
    /\ marks \in Streams
    /\ cursor = 1
    /\ batch_num = 1
    /\ batch_marks = 0
    /\ processed = 0
    /\ ttl_content = <<>>
    /\ writes = <<>>
    /\ wpc = "idle"
    /\ wresult = NoWorkerResult

NextMarks ==
    \/ StreamStart
    \/ ProcessMark
    \/ EndOfStream

SpecMarks == InitMarks /\ [][NextMarks]_vars

(***************************************************************************)
(* Claims about the run-level specification Spec.                          *)
(***************************************************************************)

\* C1: a work unit whose key has a line in the completed file when a run
\* starts is never handed to a worker in that run, whether or not the failed
\* file holds the key as well.
C1_CompletedNeverDispatched == \A k \in dispatched : k \notin startCompleted

\* a run is dispatching work while some key is in both files
C1_Witness ==
    /\ mainpc = "collect"
    /\ dispatched # {}
    /\ \E k \in Keys : k \in startCompleted /\ k \in startFailed

\* C2 (as claimed): failed is terminal, a unit with a `key|reason` line in
\* the failed file when a run starts is never handed to a worker in that run.
C2_FailedIsTerminal == \A k \in dispatched : k \notin startFailed

ExpectedCompleted == {k \in Keys : plan[k] = "ok"}

ExpectedFailed == {k \in Keys : plan[k] = "fail"}

FailedKeysOnDisk == {k \in Keys : HasFailedLine(failedFile, k)}

\* C3: crash-resume equivalence. When nothing but kills and interrupts
\* disturbed the runs (every unit either converts or raises, always the same
\* way), a run that reaches its end leaves the same completed keys and the
\* same failed keys on disk, whatever runs were killed or interrupted before
\* it: the keys of the units that convert, and the keys of those that raise.
C3_CrashResume ==
    (mainpc = "idle" /\ ending = "finished" /\ ~perturbed) =>
        /\ StrippedLines(completedFile) = ExpectedCompleted
        /\ _load_set(variant, completedFile) = ExpectedCompleted
        /\ FailedKeysOnDisk = ExpectedFailed
        /\ LoadSetOrig(failedFile) = ExpectedFailed

\* a run finished after an earlier run was stopped with part of the work done
C3_Witness ==
    /\ mainpc = "idle"
    /\ ending = "finished"
    /\ ~perturbed
    /\ stops > 0
    /\ runNo >= 2
    /\ startCompleted # {}
    /\ dispatched # {}
    /\ ExpectedFailed # {}

\* C5: once the interrupt handler has run, no task is queued or running in
\* that run; the units that were in flight without a record when the pool
\* was terminated are pending in the next run, are all dispatched if that
\* run reaches its end, and a worker starting on a unit numbers its batches
\* from 1.
C5_InterruptThenRetry ==
    /\ (mainpc = "idle" /\ ending = "interrupted") =>
           \A k \in Keys : ust[k] \notin InFlight
    /\ (runNo = lostRun + 1 /\ mainpc # "idle") => lost \subseteq Range(toProcess)
    /\ (runNo = lostRun + 1 /\ ending = "finished") => lost \subseteq dispatched
    /\ \A k \in Keys : (ust[k] = "stream" /\ wdone[k] = 0) => wbatch[k] = 1

\* a unit interrupted after its first batch file is streamed again from
\* batch 1 by the next run
C5_Witness ==
    /\ lostRun >= 1
    /\ runNo = lostRun + 1
    /\ \E k \in lost :
          /\ ust[k] = "stream"
          /\ wdone[k] = 0
          /\ wbatch[k] = 1
          /\ <<k, 1>> \in outFiles

\* C8 (as claimed): when a run ended by itself (not interrupted, not killed)
\* and every worker it dispatched returned, every unit that was pending at
\* startup has a completed or a failed record.
C8_PendingAllRecorded ==
    ( /\ mainpc = "idle"
      /\ ending \in {"finished", "raised"}
      /\ \A k \in dispatched : ust[k] \in {"returned", "consumed"} ) =>
        \A k \in Range(toProcess) : HasRecord(k)

\* C9 (as claimed): a unit whose result main has consumed got exactly one
\* terminal line in this run.
C9_ExactlyOneRecord ==
    \A k \in Keys : ust[k] = "consumed" => appC[k] + appF[k] = 1

(***************************************************************************)
(* Claims about the store-level specification SpecStore.                   *)
(***************************************************************************)

\* C4 (as claimed): on a store whose construction and calls have returned,
\* should_process is false for every key that store has marked completed.
C4_MarkedNotProcessable ==
    \A p \in Procs :
        ppc[p] = "ready" =>
            \A k \in markedBy[p] : ~should_process(pcomp[p], pfail[p], k)

FailedLine(c) == c[1] \o <<BAR>> \o c[2]

\* C6 (as claimed): after an append was torn, once no call is in progress, a
\* freshly loaded store holds no key but those of returned calls (the partial
\* line counts as absent), and the record of every call that started after
\* the tear and returned is read back as its own key.
C6_TornLineOnlyLoss ==
    (Quiescent /\ tears > 0) =>
        /\ LoadSetOrig(completedFile) \subseteq doneC
        /\ LoadSetOrig(failedFile) \subseteq {c[1] : c \in doneF}
        /\ \A c \in afterTear :
              IF c.op = "completed"
              THEN c.key \in LoadSetOrig(completedFile)
              ELSE c.key \in LoadSetOrig(failedFile)

C10_FailedResultsPersisted ==
    (mainpc = "idle" /\ ending = "finished") =>
        \A k \in failedReturned :
            FailedLine(<<k, result[k].err>>) \in StrippedLines(failedFile)

(***************************************************************************)
(* Claims about worker failures, specification Spec.                       *)
(***************************************************************************)

\* a step of the pool or of main's loops, other than a stop of the run
RunStep ==
    \/ NextChunk
    \/ \E k \in Keys :
          \/ WorkerStart(k) \/ WorkerUnlink(k) \/ WorkerMarkInProgress(k)
          \/ WriteBatch(k) \/ StreamEnd(k) \/ StreamRaise(k)
          \/ WorkerMarkCompleted(k) \/ WorkerMarkFailed(k) \/ Consume(k)

ConvertibleBefore(n) ==
    SelectSeq([i \in 1..Len(marks) |-> i],
              LAMBDA i : i < n /\ WktBody(marks[i]).tag = "wkt")

Convertible == ConvertibleBefore(Len(marks) + 1)

RECURSIVE Members(_)
\* the members of a sequence of batch files, read in the order written
Members(ws) ==
    IF ws = <<>> THEN <<>> ELSE ws[1].members \o Members(Tail(ws))

CeilDiv(a, b) == (a + b - 1) \div b

ReturnedCompleted == wpc = "done" /\ wresult.status = "completed"

\* C12 (as claimed): whatever malformed geometries the stream holds, the
\* worker ends with 'completed', never with a failure, and has gone through
\* every record of the stream.
C12_MalformedSkipped ==
    wpc = "done" =>
        /\ wresult.status = "completed"
        /\ cursor = Len(marks) + 1

\* C16: when a worker has returned 'completed' for a stream with N
\* convertible records, it has written ceil(N / BATCH_SIZE) files, numbered
\* 1, 2, ... in that order, each with BATCH_SIZE members but the last, which
\* has the remainder; and no file without a member is ever written.
C16_BatchSequencing ==
    /\ \A i \in 1..Len(writes) : writes[i].members # <<>>
    /\ ReturnedCompleted =>
          LET N == Len(Convertible)
              F == Len(writes)
          IN  /\ F = CeilDiv(N, BATCH_SIZE)
              /\ \A i \in 1..F :
                    /\ writes[i].num = i
                    /\ Len(writes[i].members) =
                          IF i < F THEN BATCH_SIZE
                          ELSE N - BATCH_SIZE * (F - 1)

\* a stream of 2 * BATCH_SIZE + 1 convertible records has given three files
C16_Witness ==
    /\ ReturnedCompleted
    /\ Len(Convertible) = 2 * BATCH_SIZE + 1
    /\ Len(writes) = 3
    /\ Len(writes[3].members) = 1

\* C17 (as claimed): the batch count of a 'completed' result is the number
\* of batch files the worker wrote.
C17_BatchCountIsFilesWritten ==
    ReturnedCompleted => wresult.batches = Len(writes)

\* C18: a record without a WKT is in no batch file and does not count as a
\* member of the batch being built; the record count of a 'completed'
\* result is the number of records of the stream that convert, and the
\* number of members over the files written.
C18_SkippedNotCounted ==
    /\ \A i \in 1..Len(Members(writes) \o ttl_content) :
          WktBody(marks[(Members(writes) \o ttl_content)[i]]).tag = "wkt"
    /\ wpc = "loop" => batch_marks = Len(ttl_content)
    /\ ReturnedCompleted =>
          /\ wresult.marks = Len(Convertible)
          /\ wresult.marks = Len(Members(writes))

\* a polygon, a Point, a polygon: count 2, one file with 2 members
C18_Witness ==
    /\ ReturnedCompleted
    /\ marks = <<Polygon, Point, Polygon>>
    /\ wresult.marks = 2
    /\ Len(writes) = 1
    /\ Len(writes[1].members) = 2

\* C19: the files are written in strictly increasing batch number, and the
\* members of the files written, followed by those of the batch being
\* built, are at every moment the convertible records delivered so far, in
\* the order of the stream; at the end of a 'completed' worker the files
\* hold every convertible record once, in that order.
C19_OrderPreserved ==
    /\ \A i, j \in 1..Len(writes) : i < j => writes[i].num < writes[j].num
    /\ wpc = "loop" =>
          Members(writes) \o ttl_content = ConvertibleBefore(cursor)
    /\ ReturnedCompleted => Members(writes) = Convertible

\* several files were written for a stream with a skipped record in between
C19_Witness ==
    /\ ReturnedCompleted
    /\ Len(writes) >= 2
    /\ Len(Members(writes)) = Len(marks) - 1
    /\ \E i \in 2..(Len(marks) - 1) : marks[i] \in Malformed


(***************************************************************************)
(* C13: a failure of the in-progress bookkeeping alone (the construction   *)
(* of the worker's store, or mark_in_progress raising) never produces a    *)
(* 'failed' result: a unit is reported failed only when its streaming      *)
(* raised.                                                                 *)
(***************************************************************************)
C13_BookkeepingNeverFails ==
    \A k \in Keys : result[k].status = "failed" => plan[k] = "fail"


(***************************************************************************)
(* The prologue of a worker, step by step: every worker process builds a   *)
(* checkpoint store of its own on the shared directory and then calls      *)
(* mark_in_progress.  ParallelCheckpointManager.__init__ of                *)
(* mongodb_to_rdf_updated.py tests in_progress_file.exists() and unlinks   *)
(* the file in a second system call; FixedParallelCheckpointManager calls  *)
(* that constructor and then touches the file.                             *)
(***************************************************************************)
\* what the steps of the prologue leave alone
prologueRest ==
    <<variant, plan, completedFile, failedFile, outFiles, mainpc, runNo,
      ckCompleted, ckFailed, toProcess, chunkStart, ust, wbatch, wdone, stops,
      faults, dispatched, startCompleted, startFailed, ending, lost, lostRun,
      appC, appF, failedReturned, perturbed, markType, markVars, pathVars,
      auxVars,
      poff, pcomp, pfail, tears, doneC, doneF, nDone, afterTear, raced,
      markedBy, failedAtCtor>>

\* Path.unlink() on a file that is gone raises FileNotFoundError
UnlinkRaises(ip) == ~ip.exists

\* the process is between two tasks
AtRest(p) == ppc[p] \in {"none", "ready", "raised"}

\* the pool hands the process a task: checkpoint = ...Manager(checkpoint_dir)
\* up to `if self.in_progress_file.exists()`
CtorExists(p, k) ==
    /\ AtRest(p)
    /\ calls < MaxCalls
    /\ calls' = calls + 1
    /\ pop' = [pop EXCEPT ![p] = [op |-> "in_progress", key |-> k, err |-> <<>>]]
    /\ result' = [result EXCEPT ![k] = NoResult]
    /\ ppc' = [ppc EXCEPT ![p] = IF inProgress.exists THEN "unlink"
                                 ELSE IF variant = "fixed" THEN "touch"
                                 ELSE "mip"]
    /\ UNCHANGED <<inProgress, prologueRest>>

\* self.in_progress_file.unlink(); an exception leaves the constructor and
\* reaches the worker's outer handler, which returns ('failed', ...)
CtorUnlink(p) ==
    /\ ppc[p] = "unlink"
    /\ IF UnlinkRaises(inProgress)
       THEN /\ ppc' = [ppc EXCEPT ![p] = "raised"]
            /\ result' = [result EXCEPT ![pop[p].key] = Failed(ErrNoEnt)]
            /\ UNCHANGED inProgress
       ELSE /\ inProgress' = [exists |-> FALSE, entries |-> {}]
            /\ ppc' = [ppc EXCEPT ![p] = IF variant = "fixed" THEN "touch"
                                         ELSE "mip"]
            /\ UNCHANGED result
    /\ UNCHANGED <<pop, calls, prologueRest>>

\* FixedParallelCheckpointManager.__init__: self.in_progress_file.touch(exist_ok=True)
CtorTouch(p) ==
    /\ ppc[p] = "touch"
    /\ inProgress' = [inProgress EXCEPT !.exists = TRUE]
    /\ ppc' = [ppc EXCEPT ![p] = "mip"]
    /\ UNCHANGED <<pop, calls, result, prologueRest>>

\* checkpoint.mark_in_progress(analysis_id, worker_id).  The updated variant
\* opens the file for append and writes the entry.  The fixed variant takes
\* the lock of its own process, creates the file when it is missing, opens it
\* and evaluates datetime.now(), a name mongodb_to_rdf_fixed.py never
\* imports: the NameError is caught by the worker's inner handler and the
\* entry is not written.
MarkInProgress(p) ==
    /\ ppc[p] = "mip"
    /\ inProgress' = IF variant = "fixed"
                     THEN [inProgress EXCEPT !.exists = TRUE]
                     ELSE mark_in_progress(inProgress, pop[p].key, runNo)
    /\ ppc' = [ppc EXCEPT ![p] = "ready"]
    /\ UNCHANGED <<pop, calls, result, prologueRest>>

InitCtor ==
    /\ variant \in {"updated", "fixed"}
    /\ Fresh
    /\ \A k \in Keys : plan[k] = "ok"

NextCtor ==
    \/ \E p \in Procs, k \in StoreKeys : CtorExists(p, k)
    \/ \E p \in Procs : CtorUnlink(p)
    \/ \E p \in Procs : CtorTouch(p)
    \/ \E p \in Procs : MarkInProgress(p)

SpecCtor == InitCtor /\ [][NextCtor]_vars

(***************************************************************************)
(* C14: in the fixed variant, under no interleaving of the construction of *)
(* FixedParallelCheckpointManager and of mark_in_progress across worker    *)
(* processes does a construction raise, and no work unit is reported       *)
(* failed because of the in-progress file.                                 *)
(***************************************************************************)
C14_FixedCtorNeverRaises ==
    variant = "fixed" =>
        /\ \A p \in Procs : ppc[p] # "raised"
        /\ \A k \in StoreKeys : result[k].status # "failed"


(***************************************************************************)
(* C15: the store main() builds at the start of a run removes every        *)
(* in-progress entry of an earlier run: while a run is under way the       *)
(* in-progress file holds only entries written during that run.            *)
(***************************************************************************)
C15_InProgressClearedAtStartup ==
    mainpc # "idle" => \A e \in inProgress.entries : e[2] = runNo


(***************************************************************************)
(* The output paths.  main() of mongodb_to_rdf_updated.py submits one work *)
(* unit per document of db.analysis, identified by its _id; the worker     *)
(* writes OUTPUT_DIR / str(exec_id) / str(img_id) / batch_{n}.ttl.gz,      *)
(* where exec_id and img_id are fields of the document.                    *)
(***************************************************************************)
\* the values of analysis.execution_id and image.imageid in the collection
ExecIds == {"e1", "e2"}
ImageIds == {"i1", "i2"}

\* the collections the model runs on: nothing in the code or in the
\* database makes (execution_id, imageid) unique among the documents
Catalogs == [Keys -> ExecIds \X ImageIds]

\* OUTPUT_DIR / str(exec_id) / str(img_id) / f"batch_{batch_num:06d}.ttl.gz"
output_file(k, n) == <<catalog[k][1], catalog[k][2], n>>

\* what writing a batch file leaves alone
pathRest ==
    <<storeVars, markVars, markType, variant, plan, completedFile, failedFile,
      inProgress, mainpc, runNo, ckCompleted, ckFailed, toProcess, chunkStart,
      stops, faults, dispatched, startCompleted, startFailed, ending, lost,
      lostRun, appC, appF, failedReturned, perturbed, catalog, auxVars>>

\* the streaming loop up to the next full batch, with the path written
PathWriteBatch(k) ==
    /\ ust[k] = "stream"
    /\ NumMarks(k) - wdone[k] >= BATCH_SIZE
    /\ outFiles' = outFiles \cup {<<k, wbatch[k]>>}
    /\ writers' = writers \cup {<<output_file(k, wbatch[k]), k>>}
    /\ wdone' = [wdone EXCEPT ![k] = @ + BATCH_SIZE]
    /\ wbatch' = [wbatch EXCEPT ![k] = @ + 1]
    /\ UNCHANGED <<ust, result, pathRest>>

\* the end of the stream: the final batch is written when it has members,
\* and the worker returns 'completed'
PathStreamEnd(k) ==
    /\ ust[k] = "stream"
    /\ NumMarks(k) - wdone[k] < BATCH_SIZE
    /\ wdone' = [wdone EXCEPT ![k] = NumMarks(k)]
    /\ IF NumMarks(k) - wdone[k] > 0
       THEN /\ outFiles' = outFiles \cup {<<k, wbatch[k]>>}
            /\ writers' = writers \cup {<<output_file(k, wbatch[k]), k>>}
       ELSE UNCHANGED <<outFiles, writers>>
    /\ ust' = [ust EXCEPT ![k] = "returned"]
    /\ result' = [result EXCEPT ![k] =
                    [Completed(k) EXCEPT !.marks = NumMarks(k)]]
    /\ UNCHANGED <<wbatch, pathRest>>

InitPaths ==
    /\ variant = "updated"
    /\ FreshFiles
    /\ \A k \in Keys : plan[k] = "ok"
    /\ NoStream
    /\ NoAux
    /\ catalog \in Catalogs
    /\ writers = {}

NextPaths ==
    \/ StartRun
    \/ NextChunk
    \/ \E k \in Keys : WorkerStart(k)
    \/ \E k \in Keys : WorkerUnlink(k)
    \/ \E k \in Keys : WorkerMarkInProgress(k)
    \/ \E k \in Keys : PathWriteBatch(k)
    \/ \E k \in Keys : PathStreamEnd(k)
    \/ \E k \in Keys : Consume(k)

SpecPaths == InitPaths /\ [][NextPaths]_vars

(***************************************************************************)
(* C20: distinct work units never write the same output file: whatever the *)
(* batch numbers, two different analysis keys enumerated by main never     *)
(* write to the same path.                                                 *)
(***************************************************************************)
C20_DistinctUnitsDistinctFiles ==
    \A w1, w2 \in writers : w1[1] = w2[1] => w1[2] = w2[2]


(***************************************************************************)
(* process_null_marks.py: create_id_ranges and the range query.  An _id is *)
(* a string of IdLen lowercase hex characters (24 in the database); Python *)
(* and the query compare strings character by character.                   *)
(***************************************************************************)
hex_chars ==
    <<"0", "1", "2", "3", "4", "5", "6", "7", "8", "9", "a", "b", "c", "d",
      "e", "f">>

\* the position of a character in the order of the code points
Ord(c) == CHOOSE i \in 1..Len(hex_chars) : hex_chars[i] = c

\* c * n: the character repeated
Repeat(c, n) == [i \in 1..n |-> c]

\* every _id of IdLen lowercase hex characters
Ids == [1..IdLen -> Range(hex_chars)]

\* a < b on strings
StrLess(a, b) ==
    \E i \in 1..(Min(Len(a), Len(b)) + 1) :
        /\ \A j \in 1..(i - 1) : a[j] = b[j]
        /\ \/ i > Len(a) /\ i <= Len(b)
           \/ i <= Len(a) /\ i <= Len(b) /\ Ord(a[i]) < Ord(b[i])

\* get_id_range_query: {"$gte": range_start, "$lt": range_end}
InRange(id, r) == ~StrLess(id, r[1]) /\ StrLess(id, r[2])

\* chars_per_range = max(1, len(hex_chars) // num_ranges)
chars_per_range(n) ==
    IF Len(hex_chars) \div n > 1 THEN Len(hex_chars) \div n ELSE 1

\* one iteration of `for i in range(0, len(hex_chars), chars_per_range)`:
\* the range of the bucket is appended, and the loop is left by the break
\* or at the end of range()
RangeIter ==
    /\ rpc = "loop"
    /\ LET start_char == hex_chars[ri + 1]
           end_char == hex_chars[Min(ri + chars_per_range(num_ranges),
                                     Len(hex_chars) - 1) + 1]
           range_start == <<start_char>> \o Repeat("0", IdLen - 1)
           range_end == <<end_char>> \o Repeat("f", IdLen - 1)
       IN  ranges' = Append(ranges, <<range_start, range_end>>)
    /\ ri' = ri + chars_per_range(num_ranges)
    /\ rpc' = IF Len(ranges') >= num_ranges \/ ri' >= Len(hex_chars)
              THEN "last" ELSE "loop"
    /\ UNCHANGED <<runVars, storeVars, markVars, pathVars, resVars, wktVars,
                   csvVars, rotVars, variant,
                   completedFile, failedFile, inProgress, num_ranges, probe,
                   matched>>

\* if ranges: ranges[-1] = (ranges[-1][0], "f" * 24); return ranges
RangeLast ==
    /\ rpc = "last"
    /\ ranges' = IF ranges = <<>> THEN ranges
                 ELSE [ranges EXCEPT ![Len(ranges)] =
                          <<ranges[Len(ranges)][1], Repeat("f", IdLen)>>]
    /\ rpc' = "done"
    /\ UNCHANGED <<runVars, storeVars, markVars, pathVars, resVars, wktVars,
                   csvVars, rotVars, variant,
                   completedFile, failedFile, inProgress, num_ranges, ri,
                   probe, matched>>

\* the queries of the range workers evaluated on one _id of the collection
RangeQuery(id) ==
    /\ rpc = "done"
    /\ probe' = id
    /\ matched' = {j \in 1..Len(ranges) : InRange(id, ranges[j])}
    /\ rpc' = "queried"
    /\ UNCHANGED <<runVars, storeVars, markVars, pathVars, resVars, wktVars,
                   csvVars, rotVars, variant,
                   completedFile, failedFile, inProgress, num_ranges, ranges,
                   ri>>

InitRanges ==
    /\ variant = "null"
    /\ FreshFiles
    /\ \A k \in Keys : plan[k] = "ok"
    /\ NoStream
    /\ NoCatalog
    /\ NoResources
    /\ NoWkt
    /\ NoCsv
    /\ NoRotate
    /\ num_ranges \in 1..MaxRanges
    /\ ranges = <<>>
    /\ ri = 0
    /\ rpc = "loop"
    /\ probe = <<>>
    /\ matched = {}

NextRanges ==
    \/ RangeIter
    \/ RangeLast
    \/ \E id \in Ids : RangeQuery(id)

SpecRanges == InitRanges /\ [][NextRanges]_vars

(***************************************************************************)
(* C21: for every N >= 1 the ranges of create_id_ranges(N) are contiguous  *)
(* and half-open: the end of each range is the start of the next one, and  *)
(* an _id matches the query start <= _id < end of at most one range.       *)
(***************************************************************************)
C21_RangesContiguous ==
    rpc \in {"done", "queried"} =>
        /\ \A j \in 1..(Len(ranges) - 1) : ranges[j][2] = ranges[j + 1][1]
        /\ Cardinality(matched) <= 1

(***************************************************************************)
(* C22: for every N >= 1 every _id of lowercase hex characters matches the *)
(* query start <= _id < end of at least one range of create_id_ranges(N).  *)
(***************************************************************************)
C22_EveryIdInSomeRange ==
    rpc = "queried" => matched # {}


(***************************************************************************)
(* The connection and the cursor of one worker.  Every worker opens its    *)
(* connection with `with mongo_connection(...) as db`, whose finally       *)
(* closes the client, and its cursor with db.mark.find(...).               *)
(* process_analysis_worker iterates inside try/finally with                *)
(* marks_cursor.close() in the finally; process_mark_range and             *)
(* process_execution_id call marks_cursor.close() after the final batch.   *)
(***************************************************************************)
\* the workers with `finally: marks_cursor.close()` around the loop
ClosesInFinally(v) == v \in {"orig", "updated"}

\* what the steps on the resources leave alone
resRest ==
    <<runVars, storeVars, markVars, pathVars, rangeVars, wktVars, csvVars,
      rotVars, variant, completedFile, failedFile, inProgress>>

\* with mongo_connection(...) as db: MongoClient(uri); an exception here
\* leaves client = None and goes to the worker's handler
ResConnect ==
    /\ res_pc = "start"
    /\ \/ /\ conn' = "open"
          /\ res_pc' = "find"
       \/ /\ res_pc' = "raised"
          /\ UNCHANGED conn
    /\ UNCHANGED <<curs, left, res_status, resRest>>

\* marks_cursor = db.mark.find(query, ...)
ResFind ==
    /\ res_pc = "find"
    /\ curs' = "open"
    /\ res_pc' = "loop"
    /\ UNCHANGED <<conn, left, res_status, resRest>>

\* one iteration of `for mark in marks_cursor`: the cursor delivers a mark
\* and the body runs, or the cursor raises (the server is gone, the cursor
\* timed out)
ResNext ==
    /\ res_pc = "loop"
    /\ left > 0
    /\ \/ /\ left' = left - 1
          /\ UNCHANGED res_pc
       \/ /\ res_pc' = "raised"
          /\ UNCHANGED left
    /\ UNCHANGED <<conn, curs, res_status, resRest>>

\* the stream is exhausted: the final batch is written, which can raise
\* (disk full); then the cursor is closed, the with block is left and the
\* worker returns 'completed'
ResEnd ==
    /\ res_pc = "loop"
    /\ left = 0
    /\ \/ /\ curs' = "closed"
          /\ conn' = "closed"
          /\ res_pc' = "returned"
          /\ res_status' = "completed"
       \/ /\ res_pc' = "raised"
          /\ UNCHANGED <<conn, curs, res_status>>
    /\ UNCHANGED <<left, resRest>>

\* an exception on its way out: the finally of the loop (where there is
\* one) closes the cursor, the finally of mongo_connection closes the
\* client, and the handler of the worker returns 'failed'
ResUnwind ==
    /\ res_pc = "raised"
    /\ curs' = IF curs = "open" /\ ClosesInFinally(variant)
               THEN "closed" ELSE curs
    /\ conn' = IF conn = "open" THEN "closed" ELSE conn
    /\ res_pc' = "returned"
    /\ res_status' = "failed"
    /\ UNCHANGED <<left, resRest>>

InitResources ==
    /\ variant \in {"orig", "updated", "orphaned", "null"}
    /\ FreshFiles
    /\ \A k \in Keys : plan[k] = "ok"
    /\ NoStream
    /\ NoCatalog
    /\ NoRanges
    /\ NoWkt
    /\ NoCsv
    /\ NoRotate
    /\ res_pc = "start"
    /\ conn = "none"
    /\ curs = "none"
    /\ left \in 0..MaxCursor
    /\ res_status = "none"

NextResources ==
    \/ ResConnect
    \/ ResFind
    \/ ResNext
    \/ ResEnd
    \/ ResUnwind

SpecResources == InitResources /\ [][NextResources]_vars

(***************************************************************************)
(* C23: on every exit path of a worker, success or failure at any point,   *)
(* the cursor it opened and its connection are closed before it returns.   *)
(***************************************************************************)
C23_ClosedOnEveryExit ==
    res_pc = "returned" => conn # "open" /\ curs # "open"


(***************************************************************************)
(* C24: when no work unit is pending at startup (every key of the          *)
(* catalogue already has a line in the completed file or a record in the   *)
(* failed file), main returns normally without dispatching any worker and  *)
(* leaves the completed and the failed file unchanged.                     *)
(***************************************************************************)
C24_NothingPendingNothingDone ==
    (runNo > 0 /\ Keys \subseteq (startCompleted \cup startFailed)) =>
        /\ dispatched = {}
        /\ mainpc = "idle"
        /\ ending = "finished"
        /\ \A k \in Keys : appC[k] = 0 /\ appF[k] = 0


(***************************************************************************)
(* polygon_to_wkt on its own: every Polygon whose outer ring has at most   *)
(* MaxRing points with coordinates 0, 1 / Scale and 1.                     *)
(***************************************************************************)
CoordValues == {0, 1, Scale}

Points == {<<Num(a), Num(b)>> : a, b \in CoordValues}

Rings == UNION {[1..n -> Points] : n \in 1..MaxRing}

Polygons == {[type |-> "Polygon", coordinates |-> <<r>>] : r \in Rings}

\* wkt = polygon_to_wkt(geometry, image_width, image_height)
WktCall ==
    /\ wkt_out.tag = "pending"
    /\ wkt_out' = polygon_to_wkt(variant, poly)
    /\ UNCHANGED <<runVars, storeVars, markVars, pathVars, rangeVars, resVars,
                   csvVars, rotVars, variant, completedFile, failedFile,
                   inProgress, poly>>

InitWkt ==
    /\ variant \in {"orig", "updated", "rotating"}
    /\ FreshFiles
    /\ \A k \in Keys : plan[k] = "ok"
    /\ NoStream
    /\ NoCatalog
    /\ NoRanges
    /\ NoResources
    /\ NoCsv
    /\ NoRotate
    /\ poly \in Polygons
    /\ wkt_out = [tag |-> "pending", ring |-> <<>>]

NextWkt == WktCall

SpecWkt == InitWkt /\ [][NextWkt]_vars

csvRest ==
    <<runVars, storeVars, markVars, pathVars, rangeVars, resVars, wktVars,
      rotVars, variant, completedFile, failedFile, inProgress>>

\* the call up to `if output_file.exists(): return ("skipped", ...)`
CsvCheck(c) ==
    /\ csv_pc[c] = "idle"
    /\ csv_calls < MaxCsvCalls
    /\ csv_calls' = csv_calls + 1
    /\ IF csv_out[c] # "absent"
       THEN /\ csv_status' = [csv_status EXCEPT ![c] = "skipped"]
            /\ UNCHANGED csv_pc
       ELSE /\ csv_pc' = [csv_pc EXCEPT ![c] = "convert"]
            /\ UNCHANGED csv_status
    /\ UNCHANGED <<csv_out, csv_finished, csvRest>>

\* create_geosparql_ttl, mkdir and gzip.open(output_file, "wt") /
\* open(output_file, "w"): the output file is created empty; a CSV that
\* cannot be read raises before there is a file
CsvOpen(c) ==
    /\ csv_pc[c] = "convert"
    /\ \/ /\ csv_out' = [csv_out EXCEPT ![c] = "partial"]
          /\ csv_pc' = [csv_pc EXCEPT ![c] = "writing"]
          /\ UNCHANGED csv_status
       \/ /\ csv_status' = [csv_status EXCEPT ![c] = "error"]
          /\ csv_pc' = [csv_pc EXCEPT ![c] = "idle"]
          /\ UNCHANGED csv_out
    /\ UNCHANGED <<csv_calls, csv_finished, csvRest>>

\* f.write(ttl_content) and the end of the with block: the file is complete
\* and the call returns ("success", ...)
CsvWrite(c) ==
    /\ csv_pc[c] = "writing"
    /\ csv_out' = [csv_out EXCEPT ![c] = "complete"]
    /\ csv_finished' = csv_finished \cup {c}
    /\ csv_status' = [csv_status EXCEPT ![c] = "success"]
    /\ csv_pc' = [csv_pc EXCEPT ![c] = "idle"]
    /\ UNCHANGED <<csv_calls, csvRest>>

\* the write is interrupted: f.write raises (disk full) and the call returns
\* ("error", ...), or the process is killed or interrupted; the file that
\* was opened stays as it is
CsvInterrupted(c) ==
    /\ csv_pc[c] = "writing"
    /\ \E st \in {"error", "killed"} :
          csv_status' = [csv_status EXCEPT ![c] = st]
    /\ csv_pc' = [csv_pc EXCEPT ![c] = "idle"]
    /\ UNCHANGED <<csv_out, csv_calls, csv_finished, csvRest>>

InitCsv ==
    /\ variant = "csv"
    /\ FreshFiles
    /\ \A k \in Keys : plan[k] = "ok"
    /\ NoStream
    /\ NoCatalog
    /\ NoRanges
    /\ NoResources
    /\ NoWkt
    /\ NoRotate
    /\ NoCsv

NextCsv ==
    \/ \E c \in Csvs : CsvCheck(c)
    \/ \E c \in Csvs : CsvOpen(c)
    \/ \E c \in Csvs : CsvWrite(c)
    \/ \E c \in Csvs : CsvInterrupted(c)

SpecCsv == InitCsv /\ [][NextCsv]_vars

(***************************************************************************)
(* C26: process_single_csv returns 'skipped' only for a CSV whose output   *)
(* file an earlier call finished writing; a CSV whose earlier write was    *)
(* interrupted before completion is converted again.                       *)
(***************************************************************************)
C26_SkipsOnlyFinished ==
    \A c \in Csvs : csv_status[c] = "skipped" => c \in csv_finished


(***************************************************************************)
(* C27: a key is appended to the completed file only after every batch     *)
(* file of its unit, the final partial batch included, has been written:   *)
(* in every reachable state a key with a line in the completed file has    *)
(* all its batch files on disk.                                            *)
(***************************************************************************)
C27_CompletedHasAllBatches ==
    \A k \in Keys :
        HasCompletedLine(completedFile, k) =>
            \A b \in 1..CeilDiv(NumMarks(k), BATCH_SIZE) : <<k, b>> \in outFiles

\* a unit with a full batch and a partial final batch is in the completed file
C27_Witness ==
    \E k \in Keys :
        /\ HasCompletedLine(completedFile, k)
        /\ NumMarks(k) > BATCH_SIZE
        /\ NumMarks(k) % BATCH_SIZE # 0
        /\ <<k, CeilDiv(NumMarks(k), BATCH_SIZE)>> \in outFiles


(***************************************************************************)
(* C28: after any sequence of runs over the same checkpoint directory,     *)
(* interrupted or not, no key has both a line in the completed file and a  *)
(* line in the failed file.                                                *)
(***************************************************************************)
C28_NeverInBothFiles ==
    \A k \in Keys :
        ~(HasCompletedLine(completedFile, k) /\ HasFailedLine(failedFile, k))


(***************************************************************************)
(* mongodb_to_rdf.py (sequential pipeline): RotatingCheckpointManager and  *)
(* process_analysis on one store.                                          *)
(***************************************************************************)
\* the keys f"{exec_id}:{img_id}" of the analyses
RotKeys == 1..NumRotKeys

\* what the calls on the rotating store leave alone
rotRest ==
    <<runVars, storeVars, markVars, pathVars, rangeVars, resVars, wktVars,
      csvVars, variant, completedFile, failedFile, inProgress>>

\* _check_archives(key): "we'll assume if it's not in working set, it's not
\* processed": return False
_check_archives(k) == FALSE

\* is_processed(exec_id, img_id)
is_processed(ws, k) == k \in Range(ws) \/ _check_archives(k)

\* self.working_set[key] = {...}: a new key goes to the end of the dict, a
\* key that is there keeps its place
PutKey(ws, k) == IF k \in Range(ws) THEN ws ELSE Append(ws, k)

\* save(): json.dump of the working set and the failed entries
Saved(ws, f) == [exists |-> TRUE, processed |-> ws, failed |-> f]

\* checkpoint_file.stat().st_size, in entries
FileSize(file) == Len(file.processed) + Cardinality(file.failed)

\* _should_rotate()
_should_rotate(file, count) ==
    \/ file.exists /\ FileSize(file) > checkpoint_max_size
    \/ count > checkpoint_max_entries

\* _rotate_checkpoint: the working set after the rotation
KeepRecent(ws) ==
    IF Len(ws) > keep_recent
    THEN SubSeq(ws, Len(ws) - keep_recent + 1, Len(ws))
    ELSE <<>>

\* process_analysis on a unit the store reports as processed: return
RotSkip(k) ==
    /\ rot_calls < MaxRotCalls
    /\ is_processed(working_set, k)
    /\ rot_calls' = rot_calls + 1
    /\ UNCHANGED <<working_set, rot_failed, entry_count, ckfile, archives,
                   rot_marked, rot_again, rotRest>>

\* process_analysis on a unit that converts: the marks are written, then
\* checkpoint.mark_processed(exec_id, img_id), which saves and rotates the
\* checkpoint when _should_rotate() says so, and checkpoint.save()
RotComplete(k) ==
    /\ rot_calls < MaxRotCalls
    /\ ~is_processed(working_set, k)
    /\ rot_calls' = rot_calls + 1
    /\ rot_again' = IF k \in rot_marked THEN rot_again \cup {k} ELSE rot_again
    /\ rot_marked' = rot_marked \cup {k}
    /\ LET ws == PutKey(working_set, k)
           count == entry_count + 1
       IN  IF _should_rotate(ckfile, count)
           THEN /\ archives' = Append(archives, Saved(ws, rot_failed))
                /\ working_set' = KeepRecent(ws)
                /\ rot_failed' = {}
                /\ entry_count' = Len(KeepRecent(ws))
                /\ ckfile' = Saved(KeepRecent(ws), {})
           ELSE /\ working_set' = ws
                /\ entry_count' = count
                /\ ckfile' = Saved(ws, rot_failed)
                /\ UNCHANGED <<archives, rot_failed>>
    /\ UNCHANGED rotRest

\* process_analysis on a unit that raises: checkpoint.mark_failed,
\* checkpoint.save(), raise; main logs the error and continues
RotFail(k) ==
    /\ rot_calls < MaxRotCalls
    /\ ~is_processed(working_set, k)
    /\ rot_calls' = rot_calls + 1
    /\ rot_failed' = rot_failed \cup {k}
    /\ ckfile' = Saved(working_set, rot_failed')
    /\ UNCHANGED <<working_set, entry_count, archives, rot_marked, rot_again,
                   rotRest>>

InitRotate ==
    /\ variant = "rotating"
    /\ FreshFiles
    /\ \A k \in Keys : plan[k] = "ok"
    /\ NoStream
    /\ NoCatalog
    /\ NoRanges
    /\ NoResources
    /\ NoWkt
    /\ NoCsv
    /\ NoRotate

NextRotate ==
    \/ \E k \in RotKeys : RotSkip(k)
    \/ \E k \in RotKeys : RotComplete(k)
    \/ \E k \in RotKeys : RotFail(k)

SpecRotate == InitRotate /\ [][NextRotate]_vars

(***************************************************************************)
(* C29: once mark_processed(exec_id, img_id) has been called on a          *)
(* RotatingCheckpointManager, is_processed(exec_id, img_id) stays true on  *)
(* that store across further mark_processed calls and rotations, and       *)
(* process_analysis never converts a unit again that it has completed.     *)
(***************************************************************************)
C29_ProcessedStaysProcessed ==
    /\ \A k \in rot_marked : is_processed(working_set, k)
    /\ rot_again = {}

(***************************************************************************)
(* The chunk loop of main().                                               *)
(***************************************************************************)
\* position of unit k in analyses_to_process (0 when it is not pending)
PosIn(tp, k) ==
    IF k \in Range(tp) THEN CHOOSE i \in 1..Len(tp) : tp[i] = k ELSE 0

\* C30: while main() is in its chunk loop, the units are handled in
\* consecutive chunks of at most NUM_WORKERS * CHUNK_ROUNDS units: every
\* unit of an earlier chunk has had its result consumed, no unit of a later
\* chunk or outside analyses_to_process has been handed to the pool, and so
\* at most one chunk of units is in the pool at any time.
C30_OneChunkAtATime ==
    mainpc # "idle" =>
        /\ (chunkStart - 1) % chunk_size = 0
        /\ Len(Chunk(toProcess, chunkStart)) <= chunk_size
        /\ \A k \in Keys :
              /\ (PosIn(toProcess, k) \in 1..(chunkStart - 1))
                    => ust[k] = "consumed"
              /\ (PosIn(toProcess, k) = 0
                    \/ PosIn(toProcess, k) >= chunkStart + chunk_size)
                    => ust[k] = "none"
        /\ Cardinality({k \in Keys : ust[k] \in InFlight}) <= chunk_size

\* a unit of the second chunk is in the pool, after the whole first chunk
\* was consumed
C30_Witness ==
    /\ variant = "updated"
    /\ mainpc = "collect"
    /\ chunkStart = 1 + chunk_size
    /\ \E k \in Keys : PosIn(toProcess, k) = chunkStart /\ ust[k] \in Running
    /\ \E k \in Keys : PosIn(toProcess, k) = 1 /\ ust[k] = "consumed"

====
